---- MODULE Spec2Model ----
(***************************************************************************)
(* The VQA optimization engine of the repository: the VQA cost evaluator   *)
(* with its trace (vqa/base_vqa.py), the derivative-free drivers           *)
(* (optimizers/gradient_free.py) and the parameter-shift optimizer         *)
(* (optimizers/parameter_shift.py), run against the mock backend           *)
(* (cudaq_mock.py) and an external minimizer (scipy.optimize.minimize).    *)
(*                                                                         *)
(* numpy arrays are objects on a heap: a variable holds a reference, and   *)
(* `.copy()` allocates.  Floats are finite grid values, NaN or an          *)
(* infinity, with IEEE arithmetic and comparisons.                         *)
(***************************************************************************)
EXTENDS Integers, Sequences, FiniteSets, TLC

(***************************************************************************)
(* Bounds of the exploration.                                              *)
(***************************************************************************)
\* top-level calls the caller makes in one behaviour
MaxCalls == 2
\* array elements the caller overwrites in one behaviour
MaxMutations == 1
\* cost evaluations the external minimizer makes in one run
MaxEvals == 2
\* largest max_iterations handed to an optimizer
MaxIter == 2
\* trace length up to which the caller calls cost_function directly
MaxDirect == 2

(***************************************************************************)
(* Floats.                                                                 *)
(***************************************************************************)
Fin(n) == [k |-> "fin", v |-> n]
NaN == [k |-> "nan", v |-> 0]
PosInf == [k |-> "inf", v |-> 1]
NegInf == [k |-> "inf", v |-> -1]

IsNaN(a) == a.k = "nan"

FNeg(a) == IF a.k = "nan" THEN NaN ELSE [k |-> a.k, v |-> -a.v]

FAdd(a, b) ==
    IF a.k = "nan" \/ b.k = "nan" THEN NaN
    ELSE IF a.k = "fin" /\ b.k = "fin" THEN Fin(a.v + b.v)
    ELSE IF a.k = "inf" /\ b.k = "inf" THEN (IF a.v = b.v THEN a ELSE NaN)
    ELSE IF a.k = "inf" THEN a ELSE b

FSub(a, b) == FAdd(a, FNeg(b))

Sign(n) == IF n > 0 THEN 1 ELSE IF n < 0 THEN -1 ELSE 0

FMul(a, b) ==
    IF a.k = "nan" \/ b.k = "nan" THEN NaN
    ELSE IF a.k = "fin" /\ b.k = "fin" THEN Fin(a.v * b.v)
    ELSE IF Sign(a.v) * Sign(b.v) = 0 THEN NaN
    ELSE [k |-> "inf", v |-> Sign(a.v) * Sign(b.v)]

\* x / 2 on the grid: the mock energies differ by an even amount
FHalf(a) == IF a.k = "fin" THEN Fin(a.v \div 2) ELSE a

\* a < b: false whenever an operand is NaN
FLt(a, b) ==
    /\ a.k # "nan"
    /\ b.k # "nan"
    /\ IF a.k = "fin" /\ b.k = "fin" THEN a.v < b.v
       ELSE IF a.k = "inf" /\ b.k = "inf" THEN a.v < b.v
       ELSE IF a.k = "inf" THEN a.v < 0 ELSE b.v > 0

RECURSIVE FSum(_)
FSum(s) == IF s = <<>> THEN Fin(0) ELSE FAdd(Head(s), FSum(Tail(s)))

\* the values a caller writes into an array it holds
Vals == {Fin(2), NaN}

(***************************************************************************)
(* Strings that the code converts: sequences of characters.                *)
(***************************************************************************)
UpperChars == <<"A","B","C","D","E","F","G","H","I","J","K","L","M",
                "N","O","P","Q","R","S","T","U","V","W","X","Y","Z">>
LowerChars == <<"a","b","c","d","e","f","g","h","i","j","k","l","m",
                "n","o","p","q","r","s","t","u","v","w","x","y","z">>

LowerChar(c) ==
    IF \E i \in DOMAIN UpperChars : UpperChars[i] = c
    THEN LowerChars[CHOOSE i \in DOMAIN UpperChars : UpperChars[i] = c]
    ELSE c

\* str.lower()
Lower(s) == [i \in DOMAIN s |-> LowerChar(s[i])]

StrGradient == <<"g","r","a","d","i","e","n","t">>
StrGradientCap == <<"G","r","a","d","i","e","n","t">>
StrCOBYLA == <<"C","O","B","Y","L","A">>
StrNelderMead == <<"N","e","l","d","e","r","-","M","e","a","d">>
StrPowell == <<"P","o","w","e","l","l">>

(***************************************************************************)
(* The heap of numpy arrays.                                               *)
(***************************************************************************)
Range(s) == {s[i] : i \in DOMAIN s}

NewRef(h) == CHOOSE r \in 1..(Cardinality(DOMAIN h) + 1) :
                 /\ r \notin DOMAIN h
                 /\ \A q \in 1..(r - 1) : q \in DOMAIN h

\* np.ndarray.copy(): a fresh array with the same contents
ArrayCopy(h, ref) ==
    LET new == NewRef(h) IN [heap |-> (new :> h[ref]) @@ h, ref |-> new]

\* arrays no variable refers to any more are gone
Collect(h, roots) == [r \in (DOMAIN h \cap roots) |-> h[r]]

(***************************************************************************)
(* State.                                                                  *)
(***************************************************************************)
VARIABLES
    heap,               \* reference -> array contents
    params,             \* the caller's parameter vector (a reference)
    iteration,          \* VQA.iteration
    energy_history,     \* VQA.energy_history
    parameter_history,  \* VQA.parameter_history (references)
    optimizer,          \* VQA.optimizer
    backend_calls,      \* the observe calls of the current top-level call
    call,               \* the current (or last) top-level call and its arguments
    stack,              \* the frames that are running, innermost first
    ret,                \* what the frame that just ended returned or raised
    calls_left,         \* top-level calls the caller still makes
    mutations_left,     \* array elements the caller still overwrites
    mz,                 \* the external minimizer's locals
    gfo,                \* the GradientFreeOptimizer object
    ad,                 \* the AdaptiveOptimizer object and its optimize locals
    ps,                 \* the gradient optimizer object and its optimize locals
    attempts,           \* AdaptiveOptimizer.optimize: how each method tried so far ended
    ansatz,             \* the HardwareEfficientAnsatz object
    kernel,             \* the run of the ansatz object's kernel
    np_random,          \* numpy's global random state
    ising,              \* the IsingHamiltonian object
    model_calls,        \* the calls made on ansatz and model objects, with what they returned
    vqas                \* two more VQA objects, the lists they hold, the calls made on each

vars == <<heap, params, iteration, energy_history, parameter_history, optimizer,
          backend_calls, call, stack, ret, calls_left, mutations_left, mz, gfo, ad, ps, attempts,
          ansatz, kernel, np_random, ising, model_calls, vqas>>

\* the VQA, its optimizers and their caller
vqaVars == <<heap, params, iteration, energy_history, parameter_history, optimizer,
             backend_calls, call, stack, ret, calls_left, mutations_left, mz, gfo, ad, ps,
             attempts>>

\* the objects the VQA is built from
modelVars == <<ansatz, kernel, np_random, ising, model_calls, vqas>>

\* the ansatz of the tests: HardwareEfficientAnsatz(num_qubits=2, depth=1)
NumQubits == 2
Depth == 1
NumParameters == NumQubits * Depth

None == "None"

\* a variable that holds an object or None
Nothing == <<>>
Some(x) == <<x>>
The(o) == o[1]

NoRet == [kind |-> "none", exc |-> "", val |-> <<>>]
Returned(v) == [kind |-> "returned", exc |-> "", val |-> v]
Raised(e) == [kind |-> "raised", exc |-> e, val |-> <<>>]

\* no run yet
MzIdle == [status |-> "idle", buf |-> 0, nfev |-> 0, evals |-> <<>>, method |-> <<>>,
           options |-> <<>>, result |-> Nothing]
\* how the last run ended: its buffer is gone, its result (if any) stays known
MzEnded(status, result) == [MzIdle EXCEPT !.status = status, !.result = result]

(***************************************************************************)
(* The part of the state a cost evaluation reads and writes, as a record   *)
(* that the operators below pass along.                                    *)
(***************************************************************************)
Cur == [heap |-> heap, iteration |-> iteration, energy_history |-> energy_history,
        parameter_history |-> parameter_history, backend_calls |-> backend_calls]

\* the successor state takes m; arrays reachable from no root are collected
Install(m, roots) ==
    /\ heap' = Collect(m.heap, {params} \cup Range(m.parameter_history) \cup roots)
    /\ iteration' = m.iteration
    /\ energy_history' = m.energy_history
    /\ parameter_history' = m.parameter_history
    /\ backend_calls' = m.backend_calls

\* cudaq_mock.observe: sum of squared parameters minus 5
Observe(x) == FSub(FSum([i \in DOMAIN x |-> FMul(x[i], x[i])]), Fin(5))

\* VQA.compute_expectation: one backend call
ComputeExpectation(m, ref) ==
    LET e == Observe(m.heap[ref])
    IN  [m |-> [m EXCEPT !.backend_calls = Append(@, [x |-> m.heap[ref], e |-> e])],
         val |-> e]

\* the snapshot is the caller's array itself
SnapshotAlias(h, ref) == [heap |-> h, ref |-> ref]

\* cost_function's parameters.copy()
SnapshotCopy(h, ref) == ArrayCopy(h, ref)

\* cost_function that forgets to count the evaluation
CostFunctionUncounted(m, ref) ==
    LET ce == ComputeExpectation(m, ref)
        cp == SnapshotCopy(ce.m.heap, ref)
    IN  [m |-> [ce.m EXCEPT !.heap = cp.heap,
                            !.energy_history = Append(@, ce.val),
                            !.parameter_history = Append(@, cp.ref)],
         val |-> ce.val]

\* VQA.cost_function
CostFunction(m, ref) ==
    LET ce == ComputeExpectation(m, ref)
        cp == SnapshotCopy(ce.m.heap, ref)
    IN  [m |-> [ce.m EXCEPT !.heap = cp.heap,
                            !.energy_history = Append(@, ce.val),
                            !.parameter_history = Append(@, cp.ref),
                            !.iteration = @ + 1],
         val |-> ce.val]

\* optimize that keeps the old trace
KeepHistory(m) == m

\* VQA.optimize, "Reset history"
ResetHistory(m) ==
    [m EXCEPT !.iteration = 0, !.energy_history = <<>>, !.parameter_history = <<>>]

\* the method compared as given
IsGradientExact(method) == method = StrGradient

\* method.lower() == 'gradient'
IsGradientMethod(method) == Lower(method) = StrGradient

\* a statement of the caller that is no call of the engine
Statement(op) == [op |-> op, method |-> <<>>, max_iterations |-> 0, tolerance |-> 0,
                  x0 |-> <<>>]

(***************************************************************************)
(* The objects a VQA is built from.                                        *)
(***************************************************************************)
\* HardwareEfficientAnsatz.calculate_num_parameters
CalculateNumParameters(num_qubits, depth) == num_qubits * depth

\* HardwareEfficientAnsatz(num_qubits, depth) of one of the three bindings
HardwareEfficientAnsatz(binding, num_qubits, depth) ==
    [class |-> "HardwareEfficientAnsatz", binding |-> binding,
     num_qubits |-> num_qubits, depth |-> depth,
     num_parameters |-> CalculateNumParameters(num_qubits, depth)]

\* no kernel has run
KernelIdle == [status |-> "idle"]

\* np.random before any seed
Unseeded == [seed |-> Nothing, draws |-> 0]

\* IsingHamiltonian(num_qubits, J, h, periodic); J and h count halves
IsingHamiltonian(num_qubits, J, h, periodic) ==
    [num_qubits |-> num_qubits, J |-> J, h |-> h, periodic |-> periodic]

\* the first list reference not in use
NewList(lists) ==
    CHOOSE r \in 1..Cardinality(DOMAIN lists) + 1 :
        r \notin DOMAIN lists /\ \A q \in 1..r - 1 : q \in DOMAIN lists

\* the histories as attributes of the class: every object holds the same two lists
VQAInitShared(s, k) ==
    [s EXCEPT !.objs = (k :> [iteration |-> 0, energy_history |-> 1,
                              parameter_history |-> 2]) @@ @,
              !.lists = @ @@ (1 :> <<>>) @@ (2 :> <<>>),
              !.made = (k :> <<>>) @@ @]

\* VQA.__init__ of object k: iteration = 0 and two new empty lists
VQAInit(s, k) ==
    LET eh == NewList(s.lists)
        withEh == (eh :> <<>>) @@ s.lists
        ph == NewList(withEh)
    IN  [s EXCEPT !.objs = (k :> [iteration |-> 0, energy_history |-> eh,
                                  parameter_history |-> ph]) @@ @,
                  !.lists = (ph :> <<>>) @@ withEh,
                  !.made = (k :> <<>>) @@ @]

\* two VQA objects constructed one after the other, no call made yet
TwoVQAs == VQAInit(VQAInit([objs |-> <<>>, lists |-> <<>>, made |-> <<>>, calls |-> 0], 1), 2)

(***************************************************************************)
(* Initial state: the objects as constructed, the caller holding one       *)
(* parameter vector.                                                       *)
(***************************************************************************)
InitVals == {Fin(-1), Fin(0)}
InitVectors == UNION {[1..n -> InitVals] : n \in 1..NumParameters}

OptimizerClasses == {"ParameterShiftOptimizer", "AdamOptimizer"}

InitVQA(vectors, classes) ==
    /\ params = 1
    /\ heap \in [{1} -> vectors]
    /\ iteration = 0
    /\ energy_history = <<>>
    /\ parameter_history = <<>>
    /\ ps \in {[class |-> c, learning_rate |-> Fin(1), shift |-> Fin(1),
               gradient_history |-> <<>>] : c \in classes}
    /\ optimizer \in {None, ps.class}
    /\ backend_calls = <<>>
    /\ call = Statement("none")
    /\ stack = <<>>
    /\ ret = NoRet
    /\ calls_left = MaxCalls
    /\ mutations_left = MaxMutations
    /\ mz = MzIdle
    /\ gfo = [method |-> StrCOBYLA, result |-> Nothing]
    /\ ad = [methods |-> <<StrCOBYLA, StrNelderMead>>, results |-> <<>>,
             method |-> 0, best_result |-> Nothing, best_energy |-> PosInf]
    /\ attempts = <<>>

\* the ansatz and the Hamiltonian of the tests, no random number drawn yet
InitModels ==
    /\ ansatz = HardwareEfficientAnsatz("cuda-q", NumQubits, Depth)
    /\ kernel = KernelIdle
    /\ np_random = Unseeded
    /\ ising = IsingHamiltonian(NumQubits, 2, 1, TRUE)
    /\ model_calls = <<>>
    /\ vqas = TwoVQAs

InitWith(vectors, classes) == InitVQA(vectors, classes) /\ InitModels

Init == InitWith(InitVectors, {"ParameterShiftOptimizer"})

\* the caller is between two calls
Idle == stack = <<>>

\* a top-level call begins
Begin(op, method, maxit, tol) ==
    /\ Idle
    /\ calls_left > 0
    /\ calls_left' = calls_left - 1
    /\ UNCHANGED mutations_left
    /\ call' = [op |-> op, method |-> method, max_iterations |-> maxit,
                tolerance |-> tol, x0 |-> heap[params]]

\* Cur at the start of a top-level call
Fresh == [Cur EXCEPT !.backend_calls = <<>>]

(***************************************************************************)
(* The caller.                                                             *)
(***************************************************************************)
\* vqa.cost_function(params)
CallCostFunction ==
    /\ Begin("VQA.cost_function", <<>>, 0, 0)
    /\ Len(energy_history) < MaxDirect
    /\ LET r == CostFunction(Fresh, params)
       IN  /\ Install(r.m, {})
           /\ ret' = Returned(r.val)
    /\ UNCHANGED modelVars
    /\ UNCHANGED <<params, optimizer, stack, mz, gfo, ad, ps, attempts>>

\* params[i] = v
MutateParams(i, v) ==
    /\ Idle
    /\ mutations_left > 0
    /\ mutations_left' = mutations_left - 1
    /\ i \in DOMAIN heap[params]
    /\ heap' = [heap EXCEPT ![params][i] = v]
    /\ call' = Statement("params[i] = v")
    /\ UNCHANGED modelVars
    /\ UNCHANGED <<params, iteration, energy_history, parameter_history, optimizer,
                   backend_calls, stack, ret, calls_left, mz, gfo, ad, ps, attempts>>

\* vqa.get_history()[1][k][i] = v
MutateSnapshot(k, i, v) ==
    /\ Idle
    /\ mutations_left > 0
    /\ mutations_left' = mutations_left - 1
    /\ k \in DOMAIN parameter_history
    /\ i \in DOMAIN heap[parameter_history[k]]
    /\ heap' = [heap EXCEPT ![parameter_history[k]][i] = v]
    /\ call' = Statement("parameter_history[k][i] = v")
    /\ UNCHANGED modelVars
    /\ UNCHANGED <<params, iteration, energy_history, parameter_history, optimizer,
                   backend_calls, stack, ret, calls_left, mz, gfo, ad, ps, attempts>>

(***************************************************************************)
(* scipy.optimize.minimize, the external minimizer.  It works in a buffer  *)
(* of its own, which it overwrites between evaluations and hands to the    *)
(* cost function; it may raise at any point, and when it returns it        *)
(* reports a point it evaluated that no other evaluated point beats.       *)
(***************************************************************************)
\* minimize(cost_function, x0, ...) is entered
MinimizeEnter(m, x0, method, options) ==
    LET cp == ArrayCopy(m.heap, x0)
    IN  [m |-> [m EXCEPT !.heap = cp.heap],
         mz |-> [status |-> "running", buf |-> cp.ref, nfev |-> 0, evals |-> <<>>,
                 method |-> method, options |-> options, result |-> Nothing]]

InMinimize == stack # <<>> /\ Head(stack) = "minimize" /\ ret.kind = "none"

\* the component the minimizer moves before evaluation number nfev + 1
MinimizeMoves(nfev, n) == ((nfev - 1) % n) + 1

\* the next point: x0 first, afterwards one component after the other moved by one
MinimizeEval ==
    /\ InMinimize
    /\ mz.nfev < MaxEvals
    /\ LET i == MinimizeMoves(mz.nfev, Len(heap[mz.buf]))
           moved == IF mz.nfev = 0 THEN heap
                    ELSE [heap EXCEPT ![mz.buf][i] = FAdd(@, Fin(1))]
           r == CostFunction([Cur EXCEPT !.heap = moved], mz.buf)
       IN  /\ Install(r.m, {mz.buf})
           /\ mz' = [mz EXCEPT !.nfev = @ + 1,
                               !.evals = Append(@, [x |-> moved[mz.buf], e |-> r.val])]
    /\ UNCHANGED modelVars
    /\ UNCHANGED <<params, optimizer, call, stack, ret, calls_left, mutations_left, gfo, ad, ps, attempts>>

MinimizeMessage(success) ==
    IF success THEN "Optimization terminated successfully."
    ELSE "Maximum number of function evaluations has been exceeded."

\* the first evaluation that no other evaluation beats
MinimizeBest(evals) ==
    CHOOSE j \in DOMAIN evals :
        /\ \A q \in DOMAIN evals : ~FLt(evals[q].e, evals[j].e)
        /\ \A q \in 1..(j - 1) : \E r \in DOMAIN evals : FLt(evals[r].e, evals[q].e)

\* minimize returns an OptimizeResult
MinimizeReturn(success) ==
    /\ InMinimize
    /\ mz.evals # <<>>
    /\ LET j == MinimizeBest(mz.evals)
           res == [x |-> mz.evals[j].x, fun |-> mz.evals[j].e,
                   success |-> success, nit |-> mz.nfev,
                   message |-> MinimizeMessage(success)]
       IN  /\ ret' = Returned(res)
           /\ mz' = MzEnded("returned", Some(res))
    /\ stack' = Tail(stack)
    /\ Install(Cur, {})
    /\ UNCHANGED modelVars
    /\ UNCHANGED <<params, optimizer, call, calls_left, mutations_left, gfo, ad, ps, attempts>>

\* minimize raises
MinimizeRaise ==
    /\ InMinimize
    /\ ret' = Raised("MinimizerError")
    /\ stack' = Tail(stack)
    /\ mz' = MzEnded("raised", Nothing)
    /\ Install(Cur, {})
    /\ UNCHANGED modelVars
    /\ UNCHANGED <<params, optimizer, call, calls_left, mutations_left, gfo, ad, ps, attempts>>

(***************************************************************************)
(* VQA.optimize                                                            *)
(***************************************************************************)
Methods == {StrGradient, StrGradientCap, StrCOBYLA}
Tolerances == {1}

\* method 'gradient' on a VQA without optimizer
VQAOptimizeNoOptimizer(method, maxit, tol) ==
    /\ Begin("VQA.optimize", method, maxit, tol)
    /\ IsGradientMethod(method)
    /\ optimizer = None
    /\ Install(ResetHistory(Fresh), {})
    /\ ret' = Raised("ValueError")
    /\ UNCHANGED modelVars
    /\ UNCHANGED <<params, optimizer, stack, mz, gfo, ad, ps, attempts>>

\* any other method: scipy's minimize is called with cost_function
VQAOptimizeScipy(method, maxit, tol) ==
    /\ Begin("VQA.optimize", method, maxit, tol)
    /\ ~IsGradientMethod(method)
    /\ LET e == MinimizeEnter(ResetHistory(Fresh), params, method,
                               [maxiter |-> maxit, ftol |-> tol])
       IN  /\ Install(e.m, {e.mz.buf})
           /\ mz' = e.mz
    /\ stack' = <<"minimize", "VQA.optimize">>
    /\ ret' = NoRet
    /\ UNCHANGED modelVars
    /\ UNCHANGED <<params, optimizer, gfo, ad, ps, attempts>>

\* minimize has returned to VQA.optimize, or raised through it
VQAOptimizeScipyEnd ==
    /\ stack # <<>>
    /\ Head(stack) = "VQA.optimize"
    /\ ret.kind # "none"
    /\ ~IsGradientMethod(call.method)
    /\ stack' = Tail(stack)
    /\ ret' = IF ret.kind = "raised" THEN ret
              ELSE Returned([optimal_energy |-> ret.val.fun, optimal_params |-> ret.val.x])
    /\ UNCHANGED modelVars
    /\ UNCHANGED <<heap, params, iteration, energy_history, parameter_history, optimizer,
                   backend_calls, call, calls_left, mutations_left, mz, gfo, ad, ps, attempts>>

(***************************************************************************)
(* GradientFreeOptimizer.optimize                                          *)
(***************************************************************************)
\* the options handed to minimize
GFOOptions(method, maxit, tol) ==
    IF method = StrCOBYLA THEN [maxiter |-> maxit, tol |-> tol]
    ELSE IF method \in {StrNelderMead, StrPowell} THEN [maxiter |-> maxit, ftol |-> tol]
    ELSE [maxiter |-> maxit]

\* optimize up to the call of minimize
GFOEnter(m, method, x0, maxit, tol) ==
    MinimizeEnter(m, x0, method, GFOOptions(method, maxit, tol))

\* the dictionary optimize returns
GFOResult(res) ==
    [x |-> res.x, fun |-> res.fun, success |-> res.success, nit |-> res.nit,
     message |-> res.message]

\* what optimize hands to its caller once minimize has ended
GFOOutcome(r) == IF r.kind = "raised" THEN r ELSE Returned(GFOResult(r.val))

\* gfo.optimize(vqa.cost_function, params, max_iterations, tolerance)
CallGFOOptimize(maxit, tol) ==
    /\ Begin("GFO.optimize", gfo.method, maxit, tol)
    /\ LET e == GFOEnter(Fresh, gfo.method, params, maxit, tol)
       IN  /\ Install(e.m, {e.mz.buf})
           /\ mz' = e.mz
    /\ stack' = <<"minimize", "GFO.optimize">>
    /\ ret' = NoRet
    /\ UNCHANGED modelVars
    /\ UNCHANGED <<params, optimizer, gfo, ad, ps, attempts>>

\* minimize has ended under the caller's GradientFreeOptimizer
GFOOptimizeEnd ==
    /\ stack = <<"GFO.optimize">>
    /\ ret.kind # "none"
    /\ stack' = Tail(stack)
    /\ ret' = GFOOutcome(ret)
    /\ gfo' = IF ret.kind = "raised" THEN gfo ELSE [gfo EXCEPT !.result = Some(ret.val)]
    /\ UNCHANGED modelVars
    /\ UNCHANGED <<heap, params, iteration, energy_history, parameter_history, optimizer,
                   backend_calls, call, calls_left, mutations_left, mz, ad, ps, attempts>>

(***************************************************************************)
(* AdaptiveOptimizer.optimize                                              *)
(***************************************************************************)
\* result['fun'] <= best_energy
AdaptiveBetterOrEqual(fun, best_energy) == FLt(fun, best_energy) \/ fun = best_energy

\* result['fun'] < best_energy
AdaptiveBetter(fun, best_energy) == FLt(fun, best_energy)

\* the try block's bookkeeping for the method that just ended with outcome r
AdaptiveRecord(a, r) ==
    IF r.kind = "raised" THEN a
    ELSE LET a1 == [a EXCEPT !.results = (a.methods[a.method] :> r.val) @@ @]
         IN  IF AdaptiveBetter(r.val.fun, a.best_energy)
             THEN [a1 EXCEPT !.best_energy = r.val.fun, !.best_result = Some(r.val)]
             ELSE a1

\* after the loop
AdaptiveOutcome(a) ==
    IF a.best_result = Nothing THEN Raised("RuntimeError")
    ELSE Returned(The(a.best_result))

\* adaptive.optimize(vqa.cost_function, params, max_iterations, tolerance),
\* up to minimize under the first method
CallAdaptiveOptimize(maxit, tol) ==
    /\ Begin("Adaptive.optimize", <<>>, maxit, tol)
    /\ ad' = [ad EXCEPT !.method = 1, !.best_result = Nothing, !.best_energy = PosInf]
    /\ attempts' = <<>>
    /\ LET e == GFOEnter(Fresh, ad.methods[1], params, maxit, tol)
       IN  /\ Install(e.m, {e.mz.buf})
           /\ mz' = e.mz
    /\ stack' = <<"minimize", "GFO.optimize", "Adaptive.optimize">>
    /\ ret' = NoRet
    /\ UNCHANGED modelVars
    /\ UNCHANGED <<params, optimizer, gfo, ps>>

\* minimize has ended under the GradientFreeOptimizer of the current method
AdaptiveGFOEnd ==
    /\ stack = <<"GFO.optimize", "Adaptive.optimize">>
    /\ ret.kind # "none"
    /\ stack' = Tail(stack)
    /\ ret' = GFOOutcome(ret)
    /\ UNCHANGED modelVars
    /\ UNCHANGED <<heap, params, iteration, energy_history, parameter_history, optimizer,
                   backend_calls, call, calls_left, mutations_left, mz, gfo, ad, ps, attempts>>

AdaptiveAttempt(a, r) == [method |-> a.methods[a.method], kind |-> r.kind, val |-> r.val]

\* the current method has ended and another one follows
AdaptiveNextMethod ==
    /\ stack = <<"Adaptive.optimize">>
    /\ ret.kind # "none"
    /\ ad.method < Len(ad.methods)
    /\ ad' = [AdaptiveRecord(ad, ret) EXCEPT !.method = @ + 1]
    /\ attempts' = Append(attempts, AdaptiveAttempt(ad, ret))
    /\ LET e == GFOEnter(Cur, ad.methods[ad.method + 1], params,
                         call.max_iterations, call.tolerance)
       IN  /\ Install(e.m, {e.mz.buf})
           /\ mz' = e.mz
    /\ stack' = <<"minimize", "GFO.optimize", "Adaptive.optimize">>
    /\ ret' = NoRet
    /\ UNCHANGED modelVars
    /\ UNCHANGED <<params, optimizer, call, calls_left, mutations_left, gfo, ps>>

\* the last method has ended
AdaptiveEnd ==
    /\ stack = <<"Adaptive.optimize">>
    /\ ret.kind # "none"
    /\ ad.method = Len(ad.methods)
    /\ ad' = AdaptiveRecord(ad, ret)
    /\ attempts' = Append(attempts, AdaptiveAttempt(ad, ret))
    /\ stack' = <<>>
    /\ ret' = AdaptiveOutcome(ad')
    /\ UNCHANGED modelVars
    /\ UNCHANGED <<heap, params, iteration, energy_history, parameter_history, optimizer,
                   backend_calls, call, calls_left, mutations_left, mz, gfo, ps>>

(***************************************************************************)
(* Parameter-shift gradients and ParameterShiftOptimizer.optimize          *)
(***************************************************************************)
\* the shift applied to the base vector itself
ParamsPlusInPlace(h, ref, i, shift) ==
    [heap |-> [h EXCEPT ![ref][i] = FAdd(@, shift)], ref |-> ref]

\* params_plus = parameters.copy(); params_plus[i] += shift
ParamsPlus(h, ref, i, shift) ==
    LET cp == ArrayCopy(h, ref)
    IN  [heap |-> [cp.heap EXCEPT ![cp.ref][i] = FAdd(@, shift)], ref |-> cp.ref]

\* the backward vector shifted forward
ParamsMinusForward(h, ref, i, shift) ==
    LET cp == ArrayCopy(h, ref)
    IN  [heap |-> [cp.heap EXCEPT ![cp.ref][i] = FAdd(@, shift)], ref |-> cp.ref]

\* params_minus = parameters.copy(); params_minus[i] -= shift
ParamsMinus(h, ref, i, shift) ==
    LET cp == ArrayCopy(h, ref)
    IN  [heap |-> [cp.heap EXCEPT ![cp.ref][i] = FSub(@, shift)], ref |-> cp.ref]

\* the difference without the division
PlainDifference(f_plus, f_minus) == FSub(f_plus, f_minus)

\* (f_plus - f_minus) / 2
HalfDifference(f_plus, f_minus) == FHalf(FSub(f_plus, f_minus))

\* ParameterShiftOptimizer.compute_gradient with VQA.cost_function, from index i on
RECURSIVE PSGradientFrom(_, _, _, _, _)
PSGradientFrom(m, ref, shift, i, gradient) ==
    IF i > Len(m.heap[ref]) THEN [m |-> m, val |-> gradient]
    ELSE LET plus == ParamsPlus(m.heap, ref, i, shift)
             minus == ParamsMinus(plus.heap, ref, i, shift)
             fp == CostFunction([m EXCEPT !.heap = minus.heap], plus.ref)
             fm == CostFunction(fp.m, minus.ref)
         IN  PSGradientFrom(fm.m, ref, shift, i + 1,
                            [gradient EXCEPT ![i] = HalfDifference(fp.val, fm.val)])

\* np.zeros_like(parameters)
ZerosLike(x) == [i \in DOMAIN x |-> Fin(0)]

\* compute_gradient whose evaluations leave no entry in the trace
PSComputeGradientUnrecorded(m, ref, shift) ==
    LET g == PSGradientFrom(m, ref, shift, 1, ZerosLike(m.heap[ref]))
    IN  [m |-> [g.m EXCEPT !.iteration = m.iteration,
                           !.energy_history = m.energy_history,
                           !.parameter_history = m.parameter_history],
         val |-> g.val]

PSComputeGradient(m, ref, shift) ==
    PSGradientFrom(m, ref, shift, 1, ZerosLike(m.heap[ref]))

\* compute_gradient with its energies from cost_function
VQAComputeGradientRecorded(m, ref, shift) ==
    PSGradientFrom(m, ref, shift, 1, ZerosLike(m.heap[ref]))

\* VQA.compute_gradient, from index i on: the energies come from compute_expectation
RECURSIVE VQAGradientFrom(_, _, _, _, _)
VQAGradientFrom(m, ref, shift, i, gradient) ==
    IF i > Len(m.heap[ref]) THEN [m |-> m, val |-> gradient]
    ELSE LET plus == ParamsPlus(m.heap, ref, i, shift)
             minus == ParamsMinus(plus.heap, ref, i, shift)
             ep == ComputeExpectation([m EXCEPT !.heap = minus.heap], plus.ref)
             em == ComputeExpectation(ep.m, minus.ref)
         IN  VQAGradientFrom(em.m, ref, shift, i + 1,
                             [gradient EXCEPT ![i] = HalfDifference(ep.val, em.val)])

VQAComputeGradient(m, ref, shift) ==
    VQAGradientFrom(m, ref, shift, 1, ZerosLike(m.heap[ref]))

\* the shift is an argument (VQA) or a constructor argument (optimizer); pi/2 is
\* the unit of the parameter grid
Shifts == {Fin(1)}

\* vqa.compute_gradient(params, shift)
CallVQAComputeGradient(shift) ==
    /\ Begin("VQA.compute_gradient", <<>>, 0, 0)
    /\ LET r == VQAComputeGradient(Fresh, params, shift)
       IN  /\ Install(r.m, {})
           /\ ret' = Returned(r.val)
    /\ UNCHANGED modelVars
    /\ UNCHANGED <<params, optimizer, stack, mz, gfo, ad, ps, attempts>>

\* ps.compute_gradient(vqa.cost_function, params)
CallPSComputeGradient ==
    /\ Begin("PS.compute_gradient", <<>>, 0, 0)
    /\ LET r == PSComputeGradient(Fresh, params, ps.shift)
       IN  /\ Install(r.m, {})
           /\ ret' = Returned(r.val)
    /\ UNCHANGED modelVars
    /\ UNCHANGED <<params, optimizer, stack, mz, gfo, ad, ps, attempts>>

\* initial_parameters.copy()
InitialCopy(h, ref) == ArrayCopy(h, ref)

\* np.linalg.norm(gradient), squared
NormSquared(gradient) == FSum([i \in DOMAIN gradient |-> FMul(gradient[i], gradient[i])])

\* gradient_norm < tolerance, on the squares
NormBelow(norm2, tol) == tol > 0 /\ FLt(norm2, Fin(tol * tol))

\* a step up the gradient
Ascend(x, lr, gradient) == [i \in DOMAIN x |-> FAdd(x[i], FMul(lr, gradient[i]))]

\* parameters - learning_rate * gradient: a new array
Descend(x, lr, gradient) == [i \in DOMAIN x |-> FSub(x[i], FMul(lr, gradient[i]))]

\* the optimizer object without the locals of a finished optimize call
OptimizerObject(p) ==
    [class |-> p.class, learning_rate |-> p.learning_rate, shift |-> p.shift,
     gradient_history |-> p.gradient_history]

\* optimize up to the loop
PSOptimizeEnter(m, p, x0) ==
    LET cp == InitialCopy(m.heap, x0)
    IN  [m |-> [m EXCEPT !.heap = cp.heap],
         ps |-> [class |-> p.class, learning_rate |-> p.learning_rate, shift |-> p.shift,
                 gradient_history |-> <<>>, parameters |-> cp.ref,
                 energy_history |-> <<>>, next |-> 0, broke |-> FALSE,
                 gradient_norm |-> Nothing]]

\* ps.optimize(vqa.cost_function, params, max_iterations, tolerance)
CallPSOptimize(maxit, tol) ==
    /\ Begin("PS.optimize", <<>>, maxit, tol)
    /\ ps.class = "ParameterShiftOptimizer"
    /\ LET e == PSOptimizeEnter(Fresh, ps, params)
       IN  /\ Install(e.m, {e.ps.parameters})
           /\ ps' = e.ps
    /\ stack' = <<"PS.optimize">>
    /\ ret' = NoRet
    /\ UNCHANGED modelVars
    /\ UNCHANGED <<params, optimizer, mz, gfo, ad, attempts>>

\* VQA.optimize with method 'gradient' and an optimizer
VQAOptimizeGradient(method, maxit, tol) ==
    /\ Begin("VQA.optimize", method, maxit, tol)
    /\ IsGradientMethod(method)
    /\ optimizer = "ParameterShiftOptimizer"
    /\ LET e == PSOptimizeEnter(ResetHistory(Fresh), ps, params)
       IN  /\ Install(e.m, {e.ps.parameters})
           /\ ps' = e.ps
    /\ stack' = <<"PS.optimize", "VQA.optimize">>
    /\ ret' = NoRet
    /\ UNCHANGED modelVars
    /\ UNCHANGED <<params, optimizer, mz, gfo, ad, attempts>>

InPSOptimize == stack # <<>> /\ Head(stack) = "PS.optimize" /\ ret.kind = "none"

\* one iteration of the loop
PSIterate ==
    /\ InPSOptimize
    /\ ~ps.broke
    /\ ps.next < call.max_iterations
    /\ LET en == CostFunction(Cur, ps.parameters)
           gr == PSComputeGradient(en.m, ps.parameters, ps.shift)
           norm2 == NormSquared(gr.val)
           stop == NormBelow(norm2, call.tolerance)
           new == NewRef(gr.m.heap)
           upd == IF stop THEN gr.m.heap
                  ELSE (new :> Descend(gr.m.heap[ps.parameters], ps.learning_rate, gr.val))
                       @@ gr.m.heap
           par == IF stop THEN ps.parameters ELSE new
       IN  /\ Install([gr.m EXCEPT !.heap = upd], {par})
           /\ ps' = [ps EXCEPT !.parameters = par,
                               !.energy_history = Append(@, en.val),
                               !.gradient_history = Append(@, gr.val),
                               !.gradient_norm = Some(norm2),
                               !.broke = stop,
                               !.next = IF stop THEN @ ELSE @ + 1]
    /\ UNCHANGED modelVars
    /\ UNCHANGED <<params, optimizer, call, stack, ret, calls_left, mutations_left, mz, gfo, ad, attempts>>

\* after the loop: the final evaluation and the result
PSOptimizeEnd ==
    /\ InPSOptimize
    /\ ps.broke \/ ps.next >= call.max_iterations
    /\ LET fin == CostFunction(Cur, ps.parameters)
           below == NormBelow(The(ps.gradient_norm), call.tolerance)
       IN  /\ Install(fin.m, {})
           /\ ret' = IF ps.gradient_norm = Nothing THEN Raised("UnboundLocalError")
                     ELSE Returned([x |-> heap[ps.parameters], fun |-> fin.val,
                                    success |-> below,
                                    nit |-> IF ps.broke THEN ps.next + 1 ELSE ps.next,
                                    gradient_norm |-> The(ps.gradient_norm),
                                    energy_history |-> ps.energy_history,
                                    message |-> IF below THEN "Optimization converged"
                                                ELSE "Maximum iterations reached"])
    /\ stack' = Tail(stack)
    /\ ps' = OptimizerObject(ps)
    /\ UNCHANGED modelVars
    /\ UNCHANGED <<params, optimizer, call, calls_left, mutations_left, mz, gfo, ad, attempts>>

(***************************************************************************)
(* AdamOptimizer.optimize.  The object is built with beta1 = beta2 = 1/2,  *)
(* so that the moments are exact: after t iterations the first moment is   *)
(* m[i] / 2^t and the second v[i] / 2^t for the integers kept in m and v,  *)
(* and the bias corrections divide by 1 - 2^-t = (2^t - 1) / 2^t.          *)
(***************************************************************************)
Abs(n) == IF n < 0 THEN -n ELSE n

\* beta * moment + (1 - beta) * term, scaled by 2^t
AdamMoment(moment, term, t) ==
    [i \in DOMAIN moment |-> FAdd(moment[i], FMul(Fin(2 ^ (t - 1)), term[i]))]

\* 1 - beta ** (iteration + 1), scaled by 2^t
AdamBiasCorrection(t) == 2 ^ t - 1

\* 1 - beta ** t for the decay rate num / den, scaled by den^t
BiasDivisor(num, den, t) == den ^ t - num ^ t

\* the quotient without epsilon: 0 / 0 where the second moment is zero
AdamStepUnguarded(lr, m, v, t) ==
    IF lr.k # "fin" \/ m.k # "fin" \/ v.k # "fin" \/ v.v = 0 THEN NaN
    ELSE Fin(Sign(lr.v) * Sign(m.v))

\* learning_rate * m_hat / (sqrt(v_hat) + epsilon) for one component, to the
\* nearest point of the grid: with d the bias correction the quotient is
\* lr * m / (sqrt(v * d) + epsilon * d), and it reaches k - 1/2 exactly when
\* (2k - 1)^2 * v * d < 4 * lr^2 * m^2, epsilon being positive and small
AdamStep(lr, m, v, t) ==
    IF lr.k # "fin" \/ m.k # "fin" \/ v.k # "fin" THEN NaN
    ELSE LET d == AdamBiasCorrection(t)
             reached == {k \in 0..Abs(lr.v) :
                            \/ k = 0
                            \/ (2 * k - 1) * (2 * k - 1) * v.v * d
                                  < 4 * lr.v * lr.v * m.v * m.v}
             size == CHOOSE k \in reached : \A j \in reached : j <= k
         IN  Fin(Sign(lr.v) * Sign(m.v) * size)

\* parameters - learning_rate * m_hat / (np.sqrt(v_hat) + self.epsilon): a new array
AdamUpdate(x, lr, m, v, t) ==
    [i \in DOMAIN x |-> FSub(x[i], AdamStep(lr, m[i], v[i], t))]

\* optimize up to the loop
AdamOptimizeEnter(m, p, x0) ==
    LET e == PSOptimizeEnter(m, p, x0)
        zeros == ZerosLike(e.m.heap[e.ps.parameters])
    IN  [m |-> e.m,
         ps |-> [class |-> p.class, learning_rate |-> p.learning_rate, shift |-> p.shift,
                 gradient_history |-> <<>>, parameters |-> e.ps.parameters,
                 energy_history |-> <<>>, next |-> 0, broke |-> FALSE,
                 gradient_norm |-> Nothing, m |-> zeros, v |-> zeros]]

\* adam.optimize(vqa.cost_function, params, max_iterations, tolerance)
CallAdamOptimize(maxit, tol) ==
    /\ Begin("Adam.optimize", <<>>, maxit, tol)
    /\ ps.class = "AdamOptimizer"
    /\ LET e == AdamOptimizeEnter(Fresh, ps, params)
       IN  /\ Install(e.m, {e.ps.parameters})
           /\ ps' = e.ps
    /\ stack' = <<"Adam.optimize">>
    /\ ret' = NoRet
    /\ UNCHANGED modelVars
    /\ UNCHANGED <<params, optimizer, mz, gfo, ad, attempts>>

\* VQA.optimize with method 'gradient' and an AdamOptimizer
VQAOptimizeAdam(method, maxit, tol) ==
    /\ Begin("VQA.optimize", method, maxit, tol)
    /\ IsGradientMethod(method)
    /\ optimizer = "AdamOptimizer"
    /\ LET e == AdamOptimizeEnter(ResetHistory(Fresh), ps, params)
       IN  /\ Install(e.m, {e.ps.parameters})
           /\ ps' = e.ps
    /\ stack' = <<"Adam.optimize", "VQA.optimize">>
    /\ ret' = NoRet
    /\ UNCHANGED modelVars
    /\ UNCHANGED <<params, optimizer, mz, gfo, ad, attempts>>

InAdamOptimize == stack # <<>> /\ Head(stack) = "Adam.optimize" /\ ret.kind = "none"

\* one iteration of the loop
AdamIterate ==
    /\ InAdamOptimize
    /\ ~ps.broke
    /\ ps.next < call.max_iterations
    /\ LET en == CostFunction(Cur, ps.parameters)
           gr == PSComputeGradient(en.m, ps.parameters, ps.shift)
           t == ps.next + 1
           m == AdamMoment(ps.m, gr.val, t)
           v == AdamMoment(ps.v, [i \in DOMAIN gr.val |-> FMul(gr.val[i], gr.val[i])], t)
           new == NewRef(gr.m.heap)
           upd == (new :> AdamUpdate(gr.m.heap[ps.parameters], ps.learning_rate, m, v, t))
                    @@ gr.m.heap
           norm2 == NormSquared(gr.val)
           stop == NormBelow(norm2, call.tolerance)
       IN  /\ Install([gr.m EXCEPT !.heap = upd], {new})
           /\ ps' = [ps EXCEPT !.parameters = new,
                               !.energy_history = Append(@, en.val),
                               !.gradient_history = Append(@, gr.val),
                               !.m = m,
                               !.v = v,
                               !.gradient_norm = Some(norm2),
                               !.broke = stop,
                               !.next = IF stop THEN @ ELSE @ + 1]
    /\ UNCHANGED modelVars
    /\ UNCHANGED <<params, optimizer, call, stack, ret, calls_left, mutations_left, mz, gfo, ad, attempts>>

\* after the loop: the final evaluation and the result
AdamOptimizeEnd ==
    /\ InAdamOptimize
    /\ ps.broke \/ ps.next >= call.max_iterations
    /\ LET fin == CostFunction(Cur, ps.parameters)
           below == NormBelow(The(ps.gradient_norm), call.tolerance)
       IN  /\ Install(fin.m, {})
           /\ ret' = IF ps.gradient_norm = Nothing THEN Raised("UnboundLocalError")
                     ELSE Returned([x |-> heap[ps.parameters], fun |-> fin.val,
                                    success |-> below,
                                    nit |-> IF ps.broke THEN ps.next + 1 ELSE ps.next,
                                    gradient_norm |-> The(ps.gradient_norm),
                                    energy_history |-> ps.energy_history,
                                    message |-> IF below THEN "Optimization converged"
                                                ELSE "Maximum iterations reached"])
    /\ stack' = Tail(stack)
    /\ ps' = OptimizerObject(ps)
    /\ UNCHANGED modelVars
    /\ UNCHANGED <<params, optimizer, call, calls_left, mutations_left, mz, gfo, ad, attempts>>

\* the optimizer has ended under VQA.optimize
VQAOptimizeGradientEnd ==
    /\ stack = <<"VQA.optimize">>
    /\ ret.kind # "none"
    /\ IsGradientMethod(call.method)
    /\ stack' = <<>>
    /\ ret' = IF ret.kind = "raised" THEN ret
              ELSE Returned([optimal_energy |-> ret.val.fun, optimal_params |-> ret.val.x])
    /\ UNCHANGED modelVars
    /\ UNCHANGED <<heap, params, iteration, energy_history, parameter_history, optimizer,
                   backend_calls, call, calls_left, mutations_left, mz, gfo, ad, ps, attempts>>

(***************************************************************************)
(* The next-state relation.                                                *)
(***************************************************************************)
\* the external minimizer
MinimizeStep ==
    \/ MinimizeEval
    \/ \E s \in BOOLEAN : MinimizeReturn(s)
    \/ MinimizeRaise

\* the caller overwrites an element of an array it holds
Mutate ==
    \/ \E i \in 1..NumParameters, v \in Vals : MutateParams(i, v)
    \/ \E k \in DOMAIN parameter_history, i \in 1..NumParameters, v \in Vals :
           MutateSnapshot(k, i, v)

\* ParameterShiftOptimizer.optimize once entered
PSStep ==
    \/ PSIterate
    \/ PSOptimizeEnd

\* the VQA and its trace
Next ==
    \/ CallCostFunction
    \/ Mutate
    \/ \E me \in Methods, t \in Tolerances : VQAOptimizeNoOptimizer(me, MaxIter, t)
    \/ \E me \in Methods, t \in Tolerances : VQAOptimizeScipy(me, MaxIter, t)
    \/ MinimizeStep
    \/ VQAOptimizeScipyEnd
    \/ \E me \in Methods, n \in 0..MaxIter, t \in Tolerances : VQAOptimizeGradient(me, n, t)
    \/ PSStep
    \/ VQAOptimizeGradientEnd

Spec == Init /\ [][Next]_vars

\* the derivative-free drivers
NextDrivers ==
    \/ CallCostFunction
    \/ \E me \in Methods, t \in Tolerances : VQAOptimizeScipy(me, MaxIter, t)
    \/ VQAOptimizeScipyEnd
    \/ \E t \in Tolerances : CallGFOOptimize(MaxIter, t)
    \/ GFOOptimizeEnd
    \/ \E t \in Tolerances : CallAdaptiveOptimize(MaxIter, t)
    \/ AdaptiveGFOEnd
    \/ AdaptiveNextMethod
    \/ AdaptiveEnd
    \/ MinimizeStep

\* the drivers are handed a full-length vector, NaN components included
InitDrivers ==
    /\ InitWith([1..NumParameters -> {Fin(-1), NaN}], {"ParameterShiftOptimizer"})
    /\ optimizer = None

SpecDrivers == InitDrivers /\ [][NextDrivers]_vars

AdamStepOf ==
    \/ AdamIterate
    \/ AdamOptimizeEnd

\* the parameter-shift gradient and its optimizers
NextGradient ==
    \/ CallCostFunction
    \/ \E i \in 1..NumParameters, v \in Vals : MutateParams(i, v)
    \/ \E sh \in Shifts : CallVQAComputeGradient(sh)
    \/ CallPSComputeGradient
    \/ \E n \in 0..MaxIter, t \in Tolerances : CallPSOptimize(n, t)
    \/ \E me \in Methods, n \in 0..MaxIter, t \in Tolerances : VQAOptimizeGradient(me, n, t)
    \/ PSStep
    \/ \E n \in 0..MaxIter, t \in Tolerances : CallAdamOptimize(n, t)
    \/ \E me \in Methods, n \in 0..MaxIter, t \in Tolerances : VQAOptimizeAdam(me, n, t)
    \/ AdamStepOf
    \/ VQAOptimizeGradientEnd

\* the optimizer object is of either class
InitGradient == InitWith(InitVectors, OptimizerClasses)

SpecGradient == InitGradient /\ [][NextGradient]_vars

(***************************************************************************)
(* compute_gradient of an analytic cost function, in fixed point.  The     *)
(* numbers of this section are multiples of 1 / FxUnit, and an energy, the *)
(* product of two of them, is a multiple of 1 / FxUnit^2.                  *)
(***************************************************************************)
FxUnit == 10000

\* np.pi / 2, the default shift
FxPiHalf == 15708

\* the mock backend's energy as a function of the parameters alone
AnalyticCost(x) ==
    FSub(FSum([i \in DOMAIN x |-> FMul(x[i], x[i])]), Fin(5 * FxUnit * FxUnit))

\* ParameterShiftOptimizer.compute_gradient with a function of the parameters alone,
\* from index i on
RECURSIVE PSGradientOfFrom(_, _, _, _, _)
PSGradientOfFrom(h, ref, shift, i, gradient) ==
    IF i > Len(h[ref]) THEN gradient
    ELSE LET plus == ParamsPlus(h, ref, i, shift)
             minus == ParamsMinus(plus.heap, ref, i, shift)
             f_plus == AnalyticCost(minus.heap[plus.ref])
             f_minus == AnalyticCost(minus.heap[minus.ref])
         IN  PSGradientOfFrom(h, ref, shift, i + 1,
                              [gradient EXCEPT ![i] = HalfDifference(f_plus, f_minus)])

\* ParameterShiftOptimizer().compute_gradient(f, params), f the mock's formula
CallPSComputeGradientOf ==
    /\ Begin("PS.compute_gradient(f)", <<>>, 0, 0)
    /\ ret' = Returned(PSGradientOfFrom(heap, params, Fin(FxPiHalf), 1,
                                        ZerosLike(heap[params])))
    /\ backend_calls' = <<>>
    /\ UNCHANGED modelVars
    /\ UNCHANGED <<heap, params, iteration, energy_history, parameter_history, optimizer,
                   stack, mz, gfo, ad, ps, attempts>>

FxVals == {Fin(-2 * FxUnit), Fin(-FxUnit), Fin(-(FxUnit \div 2)), Fin(0),
           Fin(FxUnit \div 2), Fin(FxUnit), Fin(2 * FxUnit)}

\* the caller holds a vector of fixed-point numbers
InitShift ==
    /\ InitWith(UNION {[1..n -> FxVals] : n \in 1..NumParameters}, {"ParameterShiftOptimizer"})
    /\ optimizer = None

NextShift == CallPSComputeGradientOf

SpecShift == InitShift /\ [][NextShift]_vars

(***************************************************************************)
(* HardwareEfficientAnsatz.build_kernel: the run of the kernel it builds,  *)
(* one gate at a time.  The kernel is handed num_parameters parameters:    *)
(* the caller's list (cuda-q), the ParameterVector build_kernel makes      *)
(* (qiskit), or the caller's parameters as separate arguments (pennylane). *)
(***************************************************************************)
MaxQubits == 3
MaxDepth == 2

Bindings == {"cuda-q", "qiskit", "pennylane"}

\* entangling only between the layers
EntanglesBetween(layer, depth) == layer < depth - 1

\* if layer < depth
Entangles(layer, depth) == layer < depth

KernelRunning == kernel.status = "running"

KernelEnded(status, exc) == [kernel EXCEPT !.status = status, !.exc = exc]

\* the kernel is called; pennylane's circuit looks at parameters[0] first
KernelEnter ==
    /\ kernel.status = "idle"
    /\ kernel' = [status |-> IF ansatz.binding = "pennylane" /\ ansatz.num_parameters = 0
                             THEN "raised" ELSE "running",
                  exc |-> IF ansatz.binding = "pennylane" /\ ansatz.num_parameters = 0
                          THEN "IndexError" ELSE "",
                  layer |-> 0, i |-> 0, stage |-> "rotation", param_idx |-> 0,
                  gates |-> <<>>, reads |-> <<>>]
    /\ UNCHANGED <<ansatz, np_random, ising, model_calls, vqas>>
    /\ UNCHANGED vqaVars

\* ry(parameters[param_idx], qubits[i]); param_idx += 1
KernelRotate ==
    /\ KernelRunning
    /\ kernel.stage = "rotation"
    /\ kernel.layer < ansatz.depth
    /\ kernel.i < ansatz.num_qubits
    /\ kernel' =
         IF kernel.param_idx >= ansatz.num_parameters THEN KernelEnded("raised", "IndexError")
         ELSE [kernel EXCEPT
                 !.gates = Append(@, [gate |-> "ry", qubit |-> kernel.i,
                                      param |-> kernel.param_idx]),
                 !.reads = Append(@, kernel.param_idx),
                 !.param_idx = @ + 1,
                 !.i = IF kernel.i + 1 < ansatz.num_qubits THEN @ + 1 ELSE 0,
                 !.stage = IF kernel.i + 1 < ansatz.num_qubits THEN @ ELSE "entangling"]
    /\ UNCHANGED <<ansatz, np_random, ising, model_calls, vqas>>
    /\ UNCHANGED vqaVars

\* cx(qubits[i], qubits[i + 1])
KernelEntangle ==
    /\ KernelRunning
    /\ kernel.stage = "entangling"
    /\ Entangles(kernel.layer, ansatz.depth)
    /\ kernel.i < ansatz.num_qubits - 1
    /\ kernel' = [kernel EXCEPT
                    !.gates = Append(@, [gate |-> "cx", control |-> kernel.i,
                                         target |-> kernel.i + 1]),
                    !.i = @ + 1]
    /\ UNCHANGED <<ansatz, np_random, ising, model_calls, vqas>>
    /\ UNCHANGED vqaVars

\* the layer is done
KernelNextLayer ==
    /\ KernelRunning
    /\ kernel.stage = "entangling"
    /\ ~Entangles(kernel.layer, ansatz.depth) \/ kernel.i >= ansatz.num_qubits - 1
    /\ kernel' = [kernel EXCEPT !.layer = @ + 1, !.i = 0, !.stage = "rotation"]
    /\ UNCHANGED <<ansatz, np_random, ising, model_calls, vqas>>
    /\ UNCHANGED vqaVars

\* the loop over the layers is done
KernelReturn ==
    /\ KernelRunning
    /\ kernel.stage = "rotation"
    /\ kernel.layer >= ansatz.depth
    /\ kernel' = KernelEnded("returned", "")
    /\ UNCHANGED <<ansatz, np_random, ising, model_calls, vqas>>
    /\ UNCHANGED vqaVars

\* an ansatz of any binding and size; the VQA is not used
InitAnsatz ==
    /\ InitVQA({[i \in 1..NumParameters |-> Fin(0)]}, {"ParameterShiftOptimizer"})
    /\ optimizer = None
    /\ ansatz \in {HardwareEfficientAnsatz(b, n, d) :
                     b \in Bindings, n \in 1..MaxQubits, d \in 0..MaxDepth}
    /\ kernel = KernelIdle
    /\ np_random = Unseeded
    /\ ising = IsingHamiltonian(NumQubits, 2, 1, TRUE)
    /\ model_calls = <<>>
    /\ vqas = TwoVQAs

NextAnsatz ==
    \/ KernelEnter
    \/ KernelRotate
    \/ KernelEntangle
    \/ KernelNextLayer
    \/ KernelReturn

SpecAnsatz == InitAnsatz /\ [][NextAnsatz]_vars

(***************************************************************************)
(* initial_parameters of the ansatz classes.  numpy's global generator is  *)
(* a seed and the number of values drawn since it was seeded; its k-th     *)
(* value after seeding is a fixed function of the seed and k.  Angles are  *)
(* fixed-point numbers, FxUnit to one.                                     *)
(***************************************************************************)
MaxModelCalls == 3
MaxDraws == 5

\* UCCSDAnsatz(num_qubits, num_electrons)
UCCSDAnsatz(num_qubits, num_electrons) ==
    [class |-> "UCCSDAnsatz", num_qubits |-> num_qubits,
     num_electrons |-> num_electrons, num_parameters |-> 1]

\* SimplifiedH2Ansatz()
SimplifiedH2Ansatz ==
    [class |-> "SimplifiedH2Ansatz", num_qubits |-> 4, num_parameters |-> 1]

\* np.random.seed(seed), but only on a generator nothing has seeded yet
SeedOnce(rng, seed) ==
    IF rng.seed = Nothing THEN [seed |-> Some(seed), draws |-> 0] ELSE rng

\* np.random.seed(seed)
Seed(rng, seed) == [seed |-> Some(seed), draws |-> 0]

\* the k-th value in [0, 8) eighths a generator seeded with seed gives
Sample(seed, k) == (seed * 5 + k * 3) % 8

\* np.random.uniform(low, high, size): the values, and the generator after them
Uniform(rng, low, high, size) ==
    [val |-> [k \in 1..size |->
                low + ((high - low) * Sample(The(rng.seed), rng.draws + k)) \div 8],
     rng |-> [rng EXCEPT !.draws = @ + size]]

\* the model-object call op on self returned val
ModelCall(op, self, args, val) == [op |-> op, self |-> self, args |-> args, val |-> val]

\* initial_parameters(seed) of the three classes
InitialParameters(self, rng, seed) ==
    LET seeded == Seed(rng, seed)
    IN  CASE self.class = "HardwareEfficientAnsatz" ->
               Uniform(seeded, -2 * FxPiHalf, 2 * FxPiHalf, self.num_parameters)
          [] self.class = "UCCSDAnsatz" ->
               Uniform(seeded, -(FxUnit \div 10), FxUnit \div 10, self.num_parameters)
          [] self.class = "SimplifiedH2Ansatz" ->
               [val |-> <<FxUnit \div 10>>, rng |-> seeded]

\* the ansatz objects of a program, and the seeds it passes (42 is the default)
AnsatzObjects ==
    {HardwareEfficientAnsatz("cuda-q", NumQubits, Depth),
     HardwareEfficientAnsatz("qiskit", NumQubits, Depth + 1),
     UCCSDAnsatz(4, 2), SimplifiedH2Ansatz}

Seeds == {0, 42}

CallInitialParameters ==
    /\ Len(model_calls) < MaxModelCalls
    /\ \E self \in AnsatzObjects, seed \in Seeds :
         LET out == InitialParameters(self, np_random, seed)
         IN  /\ np_random' = out.rng
             /\ model_calls' = Append(model_calls,
                                      ModelCall("initial_parameters", self, <<seed>>, out.val))
    /\ UNCHANGED <<ansatz, kernel, ising, vqas>>
    /\ UNCHANGED vqaVars

\* a draw from the global generator anywhere else in the program
RandomDraw ==
    /\ np_random.draws < MaxDraws
    /\ np_random' = [np_random EXCEPT !.draws = @ + 1]
    /\ UNCHANGED <<ansatz, kernel, ising, model_calls, vqas>>
    /\ UNCHANGED vqaVars

InitSeeds == InitAnsatz /\ ansatz = HardwareEfficientAnsatz("cuda-q", NumQubits, Depth)

NextSeeds ==
    \/ CallInitialParameters
    \/ RandomDraw

SpecSeeds == InitSeeds /\ [][NextSeeds]_vars

(***************************************************************************)
(* IsingHamiltonian: the classical and the exact ground state energy.  J,  *)
(* h and the energies count halves.  np.linalg.eigvalsh is a library: of   *)
(* its lowest eigenvalue the model knows what holds for every Hermitian    *)
(* matrix, that it is no greater than any diagonal entry and no less than  *)
(* any row's diagonal entry minus the row's other entries' magnitudes; it  *)
(* may be any value between the two.                                       *)
(***************************************************************************)
MaxSpins == 4
MaxIsingCalls == 2

RECURSIVE IntSum(_, _)
\* f[0] + ... + f[k - 1]
IntSum(f, k) == IF k <= 0 THEN 0 ELSE f[k - 1] + IntSum(f, k - 1)

\* the least member of a set of integers
Least(S) == CHOOSE x \in S : \A y \in S : x <= y

\* the chain is closed whether or not it has a pair to close
NumInteractionsOpen(num_qubits, periodic) == num_qubits - 1

\* num_qubits if periodic else num_qubits - 1
NumInteractions(num_qubits, periodic) == IF periodic THEN num_qubits ELSE num_qubits - 1

\* the field's energy counted in as if every spin were along it
ClassicalWithField(self) ==
    -self.J * NumInteractions(self.num_qubits, self.periodic) - self.h * self.num_qubits

\* classical_ground_state_energy(): zz_energy + x_energy
ClassicalGroundStateEnergy(self) ==
    -self.J * NumInteractions(self.num_qubits, self.periodic) + 0

\* (state >> i) & 1
Bit(state, i) == (state \div 2 ^ i) % 2

\* bit i set, whatever it was
FlippedUp(state, i) == state + 2 ^ i

\* state ^ (1 << i)
Flipped(state, i) == IF Bit(state, i) = 0 THEN state + 2 ^ i ELSE state - 2 ^ i

\* 1 - 2 * bit
ZEigenvalue(bit) == 1 - 2 * bit

\* H_matrix as exact_diagonalization_energy fills it
HMatrix(self) ==
    LET n == self.num_qubits
        dim == 2 ^ n
        pairs == NumInteractions(n, self.periodic)
        zz(state) == IntSum([i \in 0..pairs - 1 |->
                               -self.J * ZEigenvalue(Bit(state, i))
                                       * ZEigenvalue(Bit(state, (i + 1) % n))], pairs)
        x(row, col) == IntSum([i \in 0..n - 1 |->
                                 IF row = Flipped(col, i) THEN -self.h ELSE 0], n)
    IN  [e \in (0..dim - 1) \X (0..dim - 1) |->
           (IF e[1] = e[2] THEN zz(e[1]) ELSE 0) + x(e[1], e[2])]

\* what eigvalsh(H)[0] can be, for H of dim rows
LowestEigenvalues(H, dim) ==
    LET rows == 0..dim - 1
        others(r) == IntSum([c \in rows |-> IF c = r THEN 0 ELSE Abs(H[<<r, c>>])], dim)
    IN  Least({H[<<r, r>>] - others(r) : r \in rows}) .. Least({H[<<r, r>>] : r \in rows})

CallClassicalGroundStateEnergy ==
    /\ Len(model_calls) < MaxIsingCalls
    /\ model_calls' = Append(model_calls,
                             ModelCall("classical_ground_state_energy", ising, <<>>,
                                       ClassicalGroundStateEnergy(ising)))
    /\ UNCHANGED <<ansatz, kernel, np_random, ising, vqas>>
    /\ UNCHANGED vqaVars

CallExactDiagonalizationEnergy ==
    /\ Len(model_calls) < MaxIsingCalls
    /\ \E lowest \in LowestEigenvalues(HMatrix(ising), 2 ^ ising.num_qubits) :
         model_calls' = Append(model_calls,
                               ModelCall("exact_diagonalization_energy", ising, <<>>, lowest))
    /\ UNCHANGED <<ansatz, kernel, np_random, ising, vqas>>
    /\ UNCHANGED vqaVars

\* a chain of any length, coupling, field and boundary
InitIsing ==
    /\ InitVQA({[i \in 1..NumParameters |-> Fin(0)]}, {"ParameterShiftOptimizer"})
    /\ optimizer = None
    /\ ansatz = HardwareEfficientAnsatz("cuda-q", NumQubits, Depth)
    /\ kernel = KernelIdle
    /\ np_random = Unseeded
    /\ ising \in {IsingHamiltonian(n, J, h, periodic) :
                    n \in 0..MaxSpins, J \in {-2, 0, 2, 4}, h \in {0, 1},
                    periodic \in BOOLEAN}
    /\ model_calls = <<>>
    /\ vqas = TwoVQAs

NextIsing ==
    \/ CallClassicalGroundStateEnergy
    \/ CallExactDiagonalizationEnergy

SpecIsing == InitIsing /\ [][NextIsing]_vars

(***************************************************************************)
(* IsingHamiltonian.build_hamiltonian: the operator as the terms added to  *)
(* it, each a coefficient and the Pauli factors it multiplies.             *)
(***************************************************************************)
Pauli(name, site) == [pauli |-> name, site |-> site]

Term(coef, ops) == [coef |-> coef, ops |-> ops]

\* H = 0.0 * I(0); H += -J * z(i) * z(j) per interaction; H += -h * x(i) per qubit
BuildHamiltonian(self) ==
    LET n == self.num_qubits
        num_interactions == NumInteractions(n, self.periodic)
    IN  <<Term(0, <<Pauli("I", 0)>>)>>
        \o [k \in 1..num_interactions |->
              Term(-self.J, <<Pauli("Z", k - 1), Pauli("Z", k % n)>>)]
        \o [k \in 1..n |-> Term(-self.h, <<Pauli("X", k - 1)>>)]

CallBuildHamiltonian ==
    /\ Len(model_calls) < MaxIsingCalls
    /\ model_calls' = Append(model_calls,
                             ModelCall("build_hamiltonian", ising, <<>>, BuildHamiltonian(ising)))
    /\ UNCHANGED <<ansatz, kernel, np_random, ising, vqas>>
    /\ UNCHANGED vqaVars

NextPairs ==
    \/ CallBuildHamiltonian
    \/ CallClassicalGroundStateEnergy
    \/ CallExactDiagonalizationEnergy

SpecPairs == InitIsing /\ [][NextPairs]_vars

(***************************************************************************)
(* H2Hamiltonian: its construction.  Bond distances count hundredths of an *)
(* Angstrom, coefficients count 1/FxUnit.  Whether PySCF can be imported   *)
(* is the installation's choice; what PySCF computes is not modelled.      *)
(***************************************************************************)
\* _compute_coefficients_pyscf()
PySCFCoefficients == [constant |-> "pyscf", h_pq |-> "pyscf", h_pqrs |-> "pyscf"]

\* the dictionary of _get_precomputed_coefficients()
PrecomputedTable == [II |-> 7138, IZ |-> 1813, ZI |-> 1813, ZZ |-> 1777, XX |-> 453]

\* _get_precomputed_coefficients(): scale_factor = 0.74 / self.bond_distance
PrecomputedCoefficients(bond_distance) ==
    IF bond_distance = 0 THEN Raised("ZeroDivisionError") ELSE Returned(PrecomputedTable)

\* H2Hamiltonian.build_hamiltonian()
H2BuildHamiltonian(coefficients) ==
    LET has(key) == key \in DOMAIN coefficients
        term(key, ops) == IF has(key) THEN <<Term(coefficients[key], ops)>> ELSE <<>>
    IN  <<Term(0, <<Pauli("I", 0)>>)>>
        \o (IF has("II")
            THEN term("II", <<Pauli("I", 0)>>)
                 \o term("IZ", <<Pauli("Z", 1)>>)
                 \o term("ZI", <<Pauli("Z", 0)>>)
                 \o term("ZZ", <<Pauli("Z", 0), Pauli("Z", 1)>>)
                 \o term("XX", <<Pauli("X", 0), Pauli("X", 1)>>)
            ELSE <<>>)

\* H2Hamiltonian(bond_distance, basis, use_pyscf) where PySCF is or is not available
H2Hamiltonian(bond_distance, basis, use_pyscf, PYSCF_AVAILABLE) ==
    LET coefficients == IF use_pyscf /\ PYSCF_AVAILABLE THEN Returned(PySCFCoefficients)
                        ELSE PrecomputedCoefficients(bond_distance)
    IN  IF coefficients.kind = "raised" THEN coefficients
        ELSE Returned([bond_distance |-> bond_distance, basis |-> basis, num_qubits |-> 4,
                       coefficients |-> coefficients.val,
                       hamiltonian |-> H2BuildHamiltonian(coefficients.val)])

BondDistances == {0, 74, 150}
BasisSets == {"sto-3g", "6-31g"}

CallH2Hamiltonian ==
    /\ Len(model_calls) < MaxIsingCalls
    /\ \E bond_distance \in BondDistances, basis \in BasisSets,
          use_pyscf \in BOOLEAN, PYSCF_AVAILABLE \in BOOLEAN :
         model_calls' =
           Append(model_calls,
                  ModelCall("H2Hamiltonian", <<>>,
                            <<bond_distance, basis, use_pyscf /\ PYSCF_AVAILABLE>>,
                            H2Hamiltonian(bond_distance, basis, use_pyscf, PYSCF_AVAILABLE)))
    /\ UNCHANGED <<ansatz, kernel, np_random, ising, vqas>>
    /\ UNCHANGED vqaVars

InitH2 == InitSeeds

NextH2 == CallH2Hamiltonian

SpecH2 == InitH2 /\ [][NextH2]_vars

(***************************************************************************)
(* Two VQA objects and one caller.  An object's histories are references   *)
(* to list objects; vqas.made is the record of what was evaluated on each  *)
(* object since its last optimize began.                                   *)
(***************************************************************************)
\* the lists some object still holds
HeldLists(s) ==
    [r \in {s.objs[k].energy_history : k \in DOMAIN s.objs}
           \cup {s.objs[k].parameter_history : k \in DOMAIN s.objs} |-> s.lists[r]]

\* self.iteration = 0; self.energy_history = []; self.parameter_history = []
TwoReset(s, k) ==
    LET eh == NewList(s.lists)
        withEh == (eh :> <<>>) @@ s.lists
        ph == NewList(withEh)
        rebound == [s EXCEPT !.objs[k] = [iteration |-> 0, energy_history |-> eh,
                                          parameter_history |-> ph],
                             !.lists = (ph :> <<>>) @@ withEh,
                             !.made[k] = <<>>]
    IN  [rebound EXCEPT !.lists = HeldLists(rebound)]

\* cost_function(x) on object k
TwoCostFunction(s, k, x) ==
    LET energy == Observe(x)
        self == s.objs[k]
        appended == [s.lists EXCEPT ![self.energy_history] = Append(@, energy)]
    IN  [s EXCEPT !.lists = [appended EXCEPT ![self.parameter_history] = Append(@, x)],
                  !.objs[k].iteration = @ + 1,
                  !.made[k] = Append(@, [x |-> x, e |-> energy])]

RECURSIVE TwoMinimize(_, _, _)
\* minimize evaluating cost_function of object k at the points xs in turn
TwoMinimize(s, k, xs) ==
    IF xs = <<>> THEN s ELSE TwoMinimize(TwoCostFunction(s, k, Head(xs)), k, Tail(xs))

TwoVectors == {<<Fin(0), Fin(0)>>, <<Fin(1), Fin(0)>>}

\* vqa_k.cost_function(x)
CallTwoCostFunction ==
    /\ vqas.calls < MaxModelCalls
    /\ \E k \in DOMAIN vqas.objs, x \in TwoVectors :
         vqas' = [TwoCostFunction(vqas, k, x) EXCEPT !.calls = @ + 1]
    /\ UNCHANGED <<ansatz, kernel, np_random, ising, model_calls>>
    /\ UNCHANGED vqaVars

\* vqa_k.optimize(x, method) with a scipy method, from entry to return
CallTwoOptimize ==
    /\ vqas.calls < MaxModelCalls
    /\ \E k \in DOMAIN vqas.objs, n \in 1..MaxEvals :
         \E xs \in [1..n -> TwoVectors] :
           vqas' = [TwoMinimize(TwoReset(vqas, k), k, xs) EXCEPT !.calls = @ + 1]
    /\ UNCHANGED <<ansatz, kernel, np_random, ising, model_calls>>
    /\ UNCHANGED vqaVars

InitTwo == InitSeeds

NextTwo ==
    \/ CallTwoCostFunction
    \/ CallTwoOptimize

SpecTwo == InitTwo /\ [][NextTwo]_vars

(***************************************************************************)
(* Properties.                                                             *)
(***************************************************************************)
Energies(calls) == [i \in DOMAIN calls |-> calls[i].e]

GradientSpellings == {StrGradient, StrGradientCap}

\* C1: VQA.optimize resets the trace at entry.  From the entry of an optimize call
\* on, whatever was called before, the trace holds exactly the evaluations made
\* since that entry: it is empty and iteration is 0 when the first evaluation
\* happens, and when optimize has ended it holds the evaluations of that run only.
C1_TraceOfThisRunOnly ==
    call.op = "VQA.optimize" =>
        /\ iteration = Len(backend_calls)
        /\ energy_history = Energies(backend_calls)
        /\ Len(parameter_history) = Len(backend_calls)

\* an optimize call that followed an earlier call has returned with a trace
C1_Witness ==
    /\ call.op = "VQA.optimize"
    /\ Idle
    /\ ret.kind = "returned"
    /\ calls_left < MaxCalls - 1
    /\ Len(energy_history) > 0

\* C2: every cost_function call appends exactly one energy (the backend's value
\* for the vector) and exactly one snapshot and increments iteration by one, and
\* in every state len(energy_history) = len(parameter_history) = iteration.
C2_OneEntryPerCall ==
    /\ [](Len(energy_history) = iteration /\ Len(parameter_history) = iteration)
    /\ [][CallCostFunction =>
            /\ iteration' = iteration + 1
            /\ energy_history' = Append(energy_history, Observe(heap[params]))
            /\ Len(parameter_history') = Len(parameter_history) + 1
            /\ ret'.val = Observe(heap[params])]_vars

\* cost_function was called twice with the same vector: two entries, same energy
C2_Witness ==
    /\ call.op = "VQA.cost_function"
    /\ iteration = 2
    /\ energy_history[1] = energy_history[2]
    /\ heap[parameter_history[1]] = heap[parameter_history[2]]
    /\ heap[parameter_history[2]] = heap[params]

\* the arrays that are not snapshots: the caller's vector, the minimizer's buffer,
\* the optimizer's current parameters
WorkingArrays ==
    {params}
      \cup (IF mz.status = "running" THEN {mz.buf} ELSE {})
      \cup (IF "parameters" \in DOMAIN ps THEN {ps.parameters} ELSE {})

\* C3: the snapshots of the trace are arrays of their own.  No two entries of
\* parameter_history are the same array, none is the caller's vector or another
\* working array, and a step changes the contents of a recorded snapshot only
\* when it is the caller's assignment to that very snapshot.
C3_SnapshotsNotAliased ==
    /\ [](/\ \A k \in DOMAIN parameter_history : parameter_history[k] \notin WorkingArrays
          /\ \A j, k \in DOMAIN parameter_history :
                 parameter_history[j] = parameter_history[k] => j = k)
    /\ [][\A k \in DOMAIN parameter_history :
            (/\ k \in DOMAIN parameter_history'
             /\ parameter_history'[k] = parameter_history[k]
             /\ ~(\E i \in 1..NumParameters, v \in Vals : MutateSnapshot(k, i, v)))
            => heap'[parameter_history[k]] = heap[parameter_history[k]]]_vars

\* two snapshots of the same vector, the same energy recorded twice, and the
\* second snapshot overwritten afterwards: the first still holds the vector
C3_Witness ==
    /\ call.op = "parameter_history[k][i] = v"
    /\ Len(parameter_history) = 2
    /\ energy_history[1] = energy_history[2]
    /\ heap[parameter_history[1]] = heap[params]
    /\ heap[parameter_history[2]] # heap[params]

\* C4: VQA.optimize with method 'gradient' in any letter case on a VQA without
\* optimizer raises ValueError, and the call makes no backend call and appends
\* nothing to the trace.
C4_GradientNeedsOptimizer ==
    (call.op = "VQA.optimize" /\ call.method \in GradientSpellings /\ optimizer = None) =>
        /\ Idle
        /\ ret = Raised("ValueError")
        /\ backend_calls = <<>>
        /\ energy_history = <<>>
        /\ parameter_history = <<>>

\* 'Gradient' was asked of a VQA without optimizer, after an earlier call
C4_Witness ==
    /\ call.op = "VQA.optimize"
    /\ call.method = StrGradientCap
    /\ optimizer = None
    /\ ret = Raised("ValueError")
    /\ calls_left < MaxCalls - 1

\* C5: an optimize call whose initial vector has not num_parameters components
\* makes no backend call and ends with an error.
C5_DimensionMismatchRejected ==
    (call.op = "VQA.optimize" /\ Len(call.x0) # NumParameters) =>
        /\ backend_calls = <<>>
        /\ Idle => ret.kind = "raised"

DerivativeFree ==
    \/ call.op = "GFO.optimize"
    \/ call.op = "VQA.optimize" /\ call.method \notin GradientSpellings

\* C6: on the derivative-free path an optimize call during which the minimizer
\* raised is not aborted: it returns a result whose success flag is false.
C6_FailureReturnsUnconverged ==
    (DerivativeFree /\ Idle /\ mz.status = "raised") =>
        /\ ret.kind = "returned"
        /\ ret.val.success = FALSE

\* C7: AdaptiveOptimizer.optimize raises only when every method it tried raised.
C7_RaisesOnlyWhenAllFailed ==
    (call.op = "Adaptive.optimize" /\ Idle /\ ret.kind = "raised") =>
        \A i \in DOMAIN attempts : attempts[i].kind = "raised"

\* C8: when AdaptiveOptimizer.optimize returns, it returns the result of a method
\* that completed, no completed method reported a lower energy, and no completed
\* method earlier in the list reported the same energy.
C8_FirstLowestEnergyWins ==
    (call.op = "Adaptive.optimize" /\ Idle /\ ret.kind = "returned") =>
        \E i \in DOMAIN attempts :
            /\ attempts[i].kind = "returned"
            /\ ret.val = attempts[i].val
            /\ \A j \in DOMAIN attempts :
                   attempts[j].kind = "returned" => ~FLt(attempts[j].val.fun, ret.val.fun)
            /\ \A j \in 1..(i - 1) :
                   attempts[j].kind = "returned" => attempts[j].val.fun # ret.val.fun

\* two methods completed with the same energy and different results: the first won
C8_Witness ==
    /\ call.op = "Adaptive.optimize"
    /\ Idle
    /\ ret.kind = "returned"
    /\ Len(attempts) = 2
    /\ attempts[1].kind = "returned"
    /\ attempts[2].kind = "returned"
    /\ attempts[1].val.fun = attempts[2].val.fun
    /\ attempts[1].val # attempts[2].val
    /\ ret.val = attempts[1].val

ComputeGradientCall == call.op \in {"VQA.compute_gradient", "PS.compute_gradient"}

\* C9: one parameter-shift gradient of an N-component vector makes exactly 2N
\* evaluations, for each index i one at theta + shift*e_i followed by one at
\* theta - shift*e_i, and twice gradient[i] is the difference of their energies.
C9_TwoEvaluationsPerComponent ==
    ComputeGradientCall =>
        \E sh \in Shifts :
            /\ Len(backend_calls) = 2 * Len(call.x0)
            /\ Len(ret.val) = Len(call.x0)
            /\ \A i \in DOMAIN call.x0 :
                /\ backend_calls[2 * i - 1].x = [call.x0 EXCEPT ![i] = FAdd(@, sh)]
                /\ backend_calls[2 * i].x = [call.x0 EXCEPT ![i] = FSub(@, sh)]
                /\ FAdd(ret.val[i], ret.val[i])
                     = FSub(backend_calls[2 * i - 1].e, backend_calls[2 * i].e)

\* a gradient of a two-component vector with a nonzero first component
C9_Witness ==
    /\ call.op = "PS.compute_gradient"
    /\ Len(call.x0) = 2
    /\ Len(backend_calls) = 4
    /\ ret.val[1] # Fin(0)
    /\ ret.val[1] # NaN

\* the components in which x differs from y
Differing(x, y) == {i \in DOMAIN x : x[i] # y[i]}

GradientOptimizerCall ==
    \/ call.op \in {"PS.optimize", "Adam.optimize"}
    \/ call.op = "VQA.optimize" /\ call.method \in GradientSpellings

\* C10: shifted evaluations work on copies.  compute_gradient and the gradient
\* optimizer's optimize leave the caller's vector as it was at the call, and every
\* evaluation of a gradient differs from the base vector in one component at most:
\* a shift made for one index is in no other evaluation.
C10_BaseVectorUntouched ==
    /\ (ComputeGradientCall \/ GradientOptimizerCall) => heap[params] = call.x0
    /\ ComputeGradientCall =>
           \A c \in DOMAIN backend_calls :
               Cardinality(Differing(backend_calls[c].x, call.x0)) <= 1
    /\ GradientOptimizerCall =>
           \A c \in DOMAIN backend_calls :
               c <= 1 + 2 * Len(call.x0) =>
                   Cardinality(Differing(backend_calls[c].x, call.x0)) <= 1

\* an Adam run moved its parameters away from the initial vector and returned
C10_Witness ==
    /\ call.op = "Adam.optimize"
    /\ Idle
    /\ ret.kind = "returned"
    /\ ret.val.x # call.x0
    /\ heap[params] = call.x0

\* the central finite difference of AnalyticCost at x with step h, in units of
\* 1 / FxUnit
CentralDifference(x, h) ==
    [i \in DOMAIN x |->
        (AnalyticCost([x EXCEPT ![i] = FAdd(@, Fin(h))]).v
           - AnalyticCost([x EXCEPT ![i] = FSub(@, Fin(h))]).v) \div (2 * h)]

\* 1e-4
FxStep == FxUnit \div 10000

\* |a - b| <= 1e-3 * |b|
WithinRelativeError(a, b) ==
    (IF a < b THEN b - a ELSE a - b) <= (IF b < 0 THEN -b ELSE b) \div 1000

\* C11: the parameter-shift gradient with the default shift pi/2 of the mock's
\* sum of squares minus 5 is within 1e-3 relative error of the central finite
\* difference with step 1e-4, in every component.
C11_ShiftEqualsFiniteDifference ==
    call.op = "PS.compute_gradient(f)" =>
        \A i \in DOMAIN call.x0 :
            WithinRelativeError(ret.val[i].v,
                                CentralDifference(call.x0, FxStep)[i] * FxUnit)

\* C11 as amended: for the mock's sum of squares minus 5 the parameter-shift
\* gradient with shift s is s times the finite-difference gradient, component i
\* being 2 * s * theta[i]: with the default shift pi/2 the two agree within 1e-3
\* relative error exactly in the components that are zero.
C11_ShiftScalesFiniteDifference ==
    call.op = "PS.compute_gradient(f)" =>
        /\ Len(ret.val) = Len(call.x0)
        /\ \A i \in DOMAIN call.x0 :
            /\ ret.val[i] = Fin(2 * FxPiHalf * call.x0[i].v)
            /\ ret.val[i].v = CentralDifference(call.x0, FxStep)[i] * FxPiHalf
            /\ WithinRelativeError(ret.val[i].v,
                                   CentralDifference(call.x0, FxStep)[i] * FxUnit)
                 <=> call.x0[i] = Fin(0)

\* at theta = (1, 0) the gradient is (pi, 0) and the finite difference (2, 0)
C11_Witness ==
    /\ call.op = "PS.compute_gradient(f)"
    /\ call.x0 = <<Fin(FxUnit), Fin(0)>>
    /\ ret.val = <<Fin(2 * FxPiHalf * FxUnit), Fin(0)>>
    /\ CentralDifference(call.x0, FxStep) = <<2 * FxUnit, 0>>

\* the evaluations one iteration of a gradient optimizer makes on N parameters
Stride(n) == 2 * n + 1

\* the vector the k-th iteration of the run started from
Iterate(k) == backend_calls[(k - 1) * Stride(Len(call.x0)) + 1].x

\* the gradient norm of the k-th iteration met the tolerance
Met(k) ==
    FLt(NormSquared(ps.gradient_history[k]), Fin(call.tolerance * call.tolerance))

\* theta - learning_rate * gradient of the k-th iteration
Stepped(k) ==
    [i \in DOMAIN Iterate(k) |->
        FSub(Iterate(k)[i], FMul(ps.learning_rate, ps.gradient_history[k][i]))]

PSOptimizeReturned == call.op = "PS.optimize" /\ Idle /\ ret.kind = "returned"

\* C12: a ParameterShiftOptimizer.optimize run that returned executed nit
\* iterations; every iteration but the last missed the tolerance and was followed
\* by theta - learning_rate * gradient; success is true exactly when the last
\* iteration met the tolerance, with message 'Optimization converged' and x the
\* vector of that iteration; otherwise the run made max_iterations iterations, x
\* is the vector after the last update and the message is 'Maximum iterations
\* reached'.
C12_DescentAndFlags ==
    PSOptimizeReturned =>
        LET n == Len(ps.gradient_history)
        IN  /\ n >= 1
            /\ ret.val.nit = n
            /\ Len(ret.val.energy_history) = n
            /\ Iterate(1) = call.x0
            /\ \A k \in 1..(n - 1) : ~Met(k) /\ Iterate(k + 1) = Stepped(k)
            /\ ret.val.success = Met(n)
            /\ Met(n) =>
                /\ ret.val.x = Iterate(n)
                /\ ret.val.message = "Optimization converged"
            /\ ~Met(n) =>
                /\ n = call.max_iterations
                /\ ret.val.x = Stepped(n)
                /\ ret.val.message = "Maximum iterations reached"

\* a run of two iterations that moved twice and did not converge
C12_Witness ==
    /\ PSOptimizeReturned
    /\ ret.val.nit = 2
    /\ ~ret.val.success
    /\ Iterate(2) # Iterate(1)
    /\ ret.val.x # Iterate(2)

\* a run that converged in its first iteration
C12_WitnessConverged ==
    /\ PSOptimizeReturned
    /\ ret.val.nit = 1
    /\ ret.val.success
    /\ call.max_iterations = 2

GradientOptimizerEnded == call.op \in {"PS.optimize", "Adam.optimize"} /\ Idle

\* C13: for every max_iterations >= 0 an optimize call of a gradient optimizer
\* ends by returning a result, converged or not, with nit <= max_iterations.
C13_EndsWithResult ==
    GradientOptimizerEnded =>
        /\ ret.kind = "returned"
        /\ ret.val.nit <= call.max_iterations
        /\ ret.val.message \in {"Optimization converged", "Maximum iterations reached"}

AllFinite(x) == \A i \in DOMAIN x : x[i].k = "fin"

\* C14: no Adam step divides by zero.  At every step t the bias-correction
\* divisors are positive, for the decay rates of the object and for the defaults
\* 0.9 and 0.999; a component whose second moment is exactly zero is left as it
\* was by the step; and a step from finite parameters with a finite gradient gives
\* finite parameters.
C14_NoDivisionByZero ==
    [][AdamIterate =>
        LET t == ps.next + 1
            gradient == ps'.gradient_history[Len(ps'.gradient_history)]
            old == heap[ps.parameters]
            new == heap'[ps'.parameters]
        IN  /\ AdamBiasCorrection(t) > 0
            /\ BiasDivisor(9, 10, t) > 0
            /\ BiasDivisor(999, 1000, t) > 0
            /\ \A i \in DOMAIN old :
                   (gradient[i] = Fin(0) /\ ps'.v[i] = Fin(0)) => new[i] = old[i]
            /\ (AllFinite(old) /\ AllFinite(gradient)) => AllFinite(new)]_vars

\* an Adam step has left a component with zero gradient and zero second moment
\* where it was and has moved the other component
C14_Witness ==
    /\ InAdamOptimize
    /\ Len(ps.gradient_history) >= 1
    /\ Len(call.x0) = 2
    /\ ps.v[1] = Fin(0)
    /\ ps.v[2] # Fin(0)
    /\ ps.v[2] # NaN
    /\ heap[ps.parameters][1] = call.x0[1]
    /\ heap[ps.parameters][2] # call.x0[2]

\* the cost function returned NaN during the call
NaNSeen == \E c \in DOMAIN backend_calls : IsNaN(backend_calls[c].e)

\* the run reported the outcome of a NaN run: all iterations made, no success
EndedUnconverged ==
    /\ ret.kind = "returned"
    /\ ret.val.success = FALSE
    /\ ret.val.message = "Maximum iterations reached"
    /\ ret.val.nit = call.max_iterations

\* C15: a gradient-based run whose cost function returned NaN makes all
\* max_iterations iterations and ends with success = false and never with
\* 'Optimization converged'; a run without NaN does not end in failure.
C15_NaNNotMasked ==
    GradientOptimizerEnded =>
        /\ NaNSeen => EndedUnconverged
        /\ ~NaNSeen => ret.kind = "returned"

\* the same from one iteration on
NaNNotMaskedFromOne ==
    (GradientOptimizerEnded /\ call.max_iterations >= 1) =>
        /\ NaNSeen => EndedUnconverged
        /\ ~NaNSeen => ret.kind = "returned"

NaNRunEnded == GradientOptimizerEnded /\ NaNSeen /\ call.max_iterations = MaxIter

\* C16: the kernel of every binding, for num_qubits >= 1 and depth >= 0, runs to
\* its end and reads the parameter indices 0 .. num_qubits * depth - 1 each once,
\* in increasing order, the k-th by the RY on qubit k mod num_qubits.
C16_ReadsEachParameterOnce ==
    /\ kernel.status # "raised"
    /\ kernel.status = "returned" =>
        /\ kernel.reads = [k \in 1..ansatz.num_parameters |-> k - 1]
        /\ ansatz.num_parameters = ansatz.num_qubits * ansatz.depth
        /\ \A g \in DOMAIN kernel.gates :
               kernel.gates[g].gate = "ry" =>
                   kernel.gates[g].qubit = kernel.gates[g].param % ansatz.num_qubits

\* the same for the kernels that run to their end
ReadsEachParameterOnceWhenBuilt ==
    kernel.status = "returned" =>
        /\ kernel.reads = [k \in 1..ansatz.num_parameters |-> k - 1]
        /\ \A g \in DOMAIN kernel.gates :
               kernel.gates[g].gate = "ry" =>
                   kernel.gates[g].qubit = kernel.gates[g].param % ansatz.num_qubits

\* the gates of one layer: num_qubits rotations, then num_qubits - 1 entanglers
LayerGates(n) == 2 * n - 1

\* the p-th gate (from 0) of the circuit on n qubits
ExpectedGate(p, n) ==
    LET layer == p \div LayerGates(n)
        slot == p % LayerGates(n)
    IN  IF slot < n THEN [gate |-> "ry", qubit |-> slot, param |-> layer * n + slot]
        ELSE [gate |-> "cx", control |-> slot - n, target |-> slot - n + 1]

\* C17: at every point of the kernel's run the gates applied so far are the
\* first gates of: layer by layer, the rotations on qubits 0 .. n-1 and then the
\* entangling gates (i, i+1) for i = 0 .. n-2; the finished circuit has all depth
\* layers, the last included, hence depth * (n - 1) entangling gates.
C17_RotationsThenEntanglers ==
    kernel.status \in {"running", "returned"} =>
        /\ \A g \in DOMAIN kernel.gates :
               kernel.gates[g] = ExpectedGate(g - 1, ansatz.num_qubits)
        /\ kernel.status = "returned" =>
            /\ Len(kernel.gates) = ansatz.depth * LayerGates(ansatz.num_qubits)
            /\ Cardinality({g \in DOMAIN kernel.gates : kernel.gates[g].gate = "cx"})
                 = ansatz.depth * (ansatz.num_qubits - 1)

\* a finished circuit of two layers on three qubits: four entangling gates, the
\* last gate an entangling gate
C17_Witness ==
    /\ kernel.status = "returned"
    /\ ansatz.num_qubits = 3
    /\ ansatz.depth = 2
    /\ Len(kernel.gates) = 10
    /\ kernel.gates[10] = [gate |-> "cx", control |-> 1, target |-> 2]

\* the calls of initial_parameters so far
InitialParametersCalls ==
    {c \in DOMAIN model_calls : model_calls[c].op = "initial_parameters"}

\* C18: any two calls of initial_parameters on the same ansatz object with the
\* same seed returned the same vector, of length num_parameters, whatever was
\* drawn or seeded between them.
C18_SameSeedSameVector ==
    \A c1, c2 \in InitialParametersCalls :
        /\ Len(model_calls[c1].val) = model_calls[c1].self.num_parameters
        /\ (/\ model_calls[c1].self = model_calls[c2].self
            /\ model_calls[c1].args = model_calls[c2].args)
               => model_calls[c1].val = model_calls[c2].val

\* the same seed on the same object twice, a call with another seed on another
\* object in between
C18_Witness ==
    /\ Len(model_calls) = 3
    /\ model_calls[1].self = model_calls[3].self
    /\ model_calls[1].self.class = "HardwareEfficientAnsatz"
    /\ model_calls[1].args = model_calls[3].args
    /\ model_calls[2].self # model_calls[1].self
    /\ model_calls[2].args # model_calls[1].args

\* the energies op has returned so far
Returns(op) == {model_calls[c].val : c \in {d \in DOMAIN model_calls : model_calls[d].op = op}}

\* C19: with h = 0, J = 1 and the periodic boundary, for every n,
\* classical_ground_state_energy and exact_diagonalization_energy both return -n.
C19_FieldFreeRingEnergy ==
    (ising.h = 0 /\ ising.J = 2 /\ ising.periodic) =>
        \A c \in DOMAIN model_calls : model_calls[c].val = -2 * ising.num_qubits

\* both energies of the ring of four spins have been returned
C19_Witness ==
    /\ ising = IsingHamiltonian(4, 2, 0, TRUE)
    /\ Returns("classical_ground_state_energy") = {-8}
    /\ Returns("exact_diagonalization_energy") = {-8}

\* C20: for J >= 0 the exact energy never exceeds the classical energy; for
\* n = 3, J = 1, h = 0.5 and the open boundary the classical energy is -2.0 and
\* the exact energy is strictly negative.
C20_ExactNotAboveClassical ==
    /\ ising.J >= 0 =>
         \A exact \in Returns("exact_diagonalization_energy"),
            classical \in Returns("classical_ground_state_energy") : exact <= classical
    /\ ising = IsingHamiltonian(3, 2, 1, FALSE) =>
         /\ \A exact \in Returns("exact_diagonalization_energy") : exact < 0
         /\ \A classical \in Returns("classical_ground_state_energy") : classical = -4

\* both energies of the open chain of three spins in the field, the exact one lower
C20_Witness ==
    /\ ising = IsingHamiltonian(3, 2, 1, FALSE)
    /\ Returns("classical_ground_state_energy") = {-4}
    /\ Returns("exact_diagonalization_energy") = {-5}

\* the objects exact_diagonalization_energy has been called on
Diagonalized ==
    {model_calls[c].self :
       c \in {d \in DOMAIN model_calls : model_calls[d].op = "exact_diagonalization_energy"}}

\* the bits in which the basis states a and b of n spins differ
DifferingBits(a, b, n) == {i \in 0..n - 1 : Bit(a, i) # Bit(b, i)}

\* C21: the matrix exact_diagonalization_energy builds is symmetric; the diagonal
\* entry of state s is the sum over the coupled pairs of -J * z_i * z_j with
\* z = 1 - 2 * bit, and an off-diagonal entry is -h when its two states differ in
\* exactly one bit and 0 otherwise.
C21_MatrixHermitian ==
    \A self \in Diagonalized :
        LET H == HMatrix(self)
            n == self.num_qubits
            states == 0..2 ^ n - 1
            pairs == IF self.periodic THEN n ELSE n - 1
        IN  \A a, b \in states :
                /\ H[<<a, b>>] = H[<<b, a>>]
                /\ a = b =>
                     H[<<a, a>>] =
                       IntSum([i \in 0..pairs - 1 |->
                                 -self.J * (1 - 2 * Bit(a, i)) * (1 - 2 * Bit(a, (i + 1) % n))],
                              pairs)
                /\ a # b =>
                     H[<<a, b>>] =
                       IF Cardinality(DifferingBits(a, b, n)) = 1 THEN -self.h ELSE 0

\* the matrix of an open chain of three spins in a field has been diagonalized
C21_Witness ==
    /\ ising = IsingHamiltonian(3, 2, 1, FALSE)
    /\ Diagonalized = {ising}
    /\ HMatrix(ising)[<<5, 4>>] = -1
    /\ HMatrix(ising)[<<5, 2>>] = 0

\* the terms of H with factors of the Pauli operator name only, in order
TermsOf(H, name) ==
    SelectSeq(H, LAMBDA t : \A f \in DOMAIN t.ops : t.ops[f].pauli = name)

\* the sites a term acts on
Sites(t) == {t.ops[f].site : f \in DOMAIN t.ops}

\* the coupled pairs of H are distinct neighbours, none twice, and there is one
\* X term per qubit
ChainOrRing(self, H) ==
    LET n == self.num_qubits
        zz == TermsOf(H, "Z")
        xs == TermsOf(H, "X")
    IN  /\ Len(zz) = IF self.periodic THEN n ELSE n - 1
        /\ \A k \in DOMAIN zz :
               /\ Cardinality(Sites(zz[k])) = 2
               /\ \E i \in 0..n - 1 : Sites(zz[k]) = {i, (i + 1) % n}
               /\ \A l \in DOMAIN zz : Sites(zz[k]) = Sites(zz[l]) => k = l
        /\ Len(xs) = n
        /\ \A i \in 0..n - 1 :
               Cardinality({k \in DOMAIN xs : Sites(xs[k]) = {i} /\ xs[k].coef = -self.h}) = 1

\* the three methods agree on the pairs: the classical energy is -J for every ZZ
\* term of H, and the matrix's diagonal is the sum of the ZZ terms' values
SamePairs(self, H) ==
    LET zz == TermsOf(H, "Z")
        value(t, state) == t.coef * (1 - 2 * Bit(state, t.ops[1].site))
                                  * (1 - 2 * Bit(state, t.ops[2].site))
    IN  /\ ClassicalGroundStateEnergy(self) = -self.J * Len(zz)
        /\ \A state \in 0..2 ^ self.num_qubits - 1 :
               HMatrix(self)[<<state, state>>] =
                 IntSum([k \in 0..Len(zz) - 1 |-> value(zz[k + 1], state)], Len(zz))

\* the build_hamiltonian calls so far
Built == {c \in DOMAIN model_calls : model_calls[c].op = "build_hamiltonian"}

\* C22: for every num_qubits >= 1 the coupled pairs of build_hamiltonian are the
\* n-1 (chain) or n (ring) pairs of distinct neighbouring sites, no unordered
\* pair twice, with one -h * X term per qubit, and the classical energy and the
\* diagonalized matrix use the same pairs.
C22_NearestNeighbourPairs ==
    \A c \in Built :
        model_calls[c].self.num_qubits >= 1 =>
            /\ ChainOrRing(model_calls[c].self, model_calls[c].val)
            /\ SamePairs(model_calls[c].self, model_calls[c].val)

\* the same on chains of any length and on rings of three spins or more
PairsFromThree ==
    \A c \in Built :
        /\ (model_calls[c].self.num_qubits >= 3
              \/ (model_calls[c].self.num_qubits >= 1 /\ ~model_calls[c].self.periodic))
             => ChainOrRing(model_calls[c].self, model_calls[c].val)
        /\ model_calls[c].self.num_qubits >= 1
             => SamePairs(model_calls[c].self, model_calls[c].val)

\* a ring of four spins has been built
PairsBuilt ==
    \E c \in Built : model_calls[c].self.num_qubits = 4 /\ model_calls[c].self.periodic

\* the constructions of an H2Hamiltonian on the pre-tabulated path
Pretabulated ==
    {c \in DOMAIN model_calls :
       model_calls[c].op = "H2Hamiltonian" /\ ~model_calls[c].args[3]}

\* the terms of H that are not the zero it starts from
NonZeroTerms(H) == SelectSeq(H, LAMBDA t : t.coef # 0)

\* the operators of I, Z_1, Z_0, Z_0 Z_1, X_0 X_1, as build_hamiltonian adds them
FiveTerms ==
    <<(<<Pauli("I", 0)>>), (<<Pauli("Z", 1)>>), (<<Pauli("Z", 0)>>),
      (<<Pauli("Z", 0), Pauli("Z", 1)>>), (<<Pauli("X", 0), Pauli("X", 1)>>)>>

\* the object has the five terms, on 4 qubits
HasFiveTerms(h2) ==
    /\ h2.num_qubits = 4
    /\ [k \in 1..Len(NonZeroTerms(h2.hamiltonian)) |-> NonZeroTerms(h2.hamiltonian)[k].ops]
         = FiveTerms

\* C23: an H2Hamiltonian on the pre-tabulated path is built, consists of the five
\* terms I, Z_0, Z_1, Z_0 Z_1, X_0 X_1 over 4 qubits, and carries the coefficients
\* tabulated for its own basis and bond distance: the coefficients tabulated for
\* sto-3g at 0.74 only when those were requested.
C23_CoefficientsByGeometry ==
    \A c \in Pretabulated :
        /\ model_calls[c].val.kind = "returned"
        /\ HasFiveTerms(model_calls[c].val.val)
        /\ model_calls[c].val.val.coefficients = PrecomputedTable
             => (model_calls[c].args[1] = 74 /\ model_calls[c].args[2] = "sto-3g")

\* the five terms alone, on the objects that were built
FiveTermsWhenBuilt ==
    \A c \in Pretabulated :
        model_calls[c].val.kind = "returned" => HasFiveTerms(model_calls[c].val.val)

\* an object for 1.5 Angstrom has been built on the pre-tabulated path
StretchedBuilt ==
    \E c \in Pretabulated : model_calls[c].args[1] = 150 /\ model_calls[c].val.kind = "returned"

\* the options the spec gives minimize for a method
MethodOptions(method, maxit, tol) ==
    CASE method = StrCOBYLA -> [maxiter |-> maxit, tol |-> tol]
      [] method \in {StrNelderMead, StrPowell} -> [maxiter |-> maxit, ftol |-> tol]
      [] OTHER -> [maxiter |-> maxit]

\* C24: whichever derivative-free entry point called it, VQA.optimize or
\* GradientFreeOptimizer.optimize, minimize is given max_iterations as maxiter
\* and the tolerance as tol for COBYLA and as ftol for Nelder-Mead and Powell.
C24_SameOptionsFromBothDrivers ==
    mz.status = "running" =>
        mz.options = MethodOptions(mz.method, call.max_iterations, call.tolerance)

\* the same for minimize under GradientFreeOptimizer.optimize alone
OptionsFromGFO ==
    (mz.status = "running" /\ call.op # "VQA.optimize") =>
        mz.options = MethodOptions(mz.method, call.max_iterations, call.tolerance)

\* minimize has run Nelder-Mead under a GradientFreeOptimizer
OptionsFromGFOSeen ==
    mz.status = "running" /\ call.op = "Adaptive.optimize" /\ mz.method = StrNelderMead

\* C25: GradientFreeOptimizer.optimize, called directly or for each method of
\* AdaptiveOptimizer.optimize with the VQA's cost_function, resets the VQA's trace
\* at entry: while its minimize runs, the trace and iteration hold the evaluations
\* that minimize has made and nothing of an earlier run or an earlier method.
C25_DriverResetsTrace ==
    (call.op \in {"GFO.optimize", "Adaptive.optimize"} /\ mz.status = "running") =>
        /\ iteration = mz.nfev
        /\ Len(energy_history) = mz.nfev
        /\ Len(parameter_history) = mz.nfev

\* the second method of an AdaptiveOptimizer runs on top of the first one's trace
TraceCarriedOver ==
    /\ call.op = "Adaptive.optimize"
    /\ mz.status = "running"
    /\ mz.method = StrNelderMead
    /\ mz.nfev = 0
    /\ iteration > 0

\* C26: whatever cost_function and optimize calls were made on two VQA objects,
\* in whatever order, each object's energy_history, parameter_history and
\* iteration are those of the calls made on that object since its last optimize
\* began; a call on one object never changes the trace of the other.
C26_InstancesDoNotInterfere ==
    \A k \in DOMAIN vqas.objs :
        /\ vqas.lists[vqas.objs[k].energy_history]
             = [i \in DOMAIN vqas.made[k] |-> vqas.made[k][i].e]
        /\ vqas.lists[vqas.objs[k].parameter_history]
             = [i \in DOMAIN vqas.made[k] |-> vqas.made[k][i].x]
        /\ vqas.objs[k].iteration = Len(vqas.made[k])

\* object 1 holds one evaluation from before object 2's optimize, object 2 holds
\* the two of its optimize
C26_Witness ==
    /\ vqas.calls = 3
    /\ vqas.objs[1].iteration = 1
    /\ vqas.objs[2].iteration = 2
    /\ Len(vqas.lists[vqas.objs[2].energy_history]) = 2
    /\ vqas.objs[2].energy_history # TwoVQAs.objs[2].energy_history

\* a gradient optimizer has just ended under VQA.optimize
GradientRunEnded ==
    /\ stack = <<"VQA.optimize">>
    /\ ret.kind # "none"
    /\ IsGradientMethod(call.method)

\* C27: when a ParameterShiftOptimizer or AdamOptimizer has run k loop iterations
\* over N parameters under VQA.optimize, the VQA's trace has k * (2N + 1) + 1
\* entries and iteration is that number, and the optimizer's energy_history and
\* gradient_history have k entries each, k being the nit of the result.
C27_TraceCountsEveryEvaluation ==
    GradientRunEnded =>
        LET k == Len(ps.gradient_history)
            N == Len(call.x0)
        IN  /\ Len(energy_history) = k * (2 * N + 1) + 1
            /\ Len(parameter_history) = k * (2 * N + 1) + 1
            /\ iteration = k * (2 * N + 1) + 1
            /\ ret.kind = "returned" =>
                 /\ ret.val.nit = k
                 /\ Len(ret.val.energy_history) = k

\* an AdamOptimizer has run two iterations over two parameters: 11 entries
C27_Witness ==
    /\ GradientRunEnded
    /\ ps.class = "AdamOptimizer"
    /\ ret.kind = "returned"
    /\ ret.val.nit = 2
    /\ Len(call.x0) = 2
    /\ iteration = 11

\* the same for a ParameterShiftOptimizer that met the tolerance at once
TraceOfConvergedRun ==
    /\ GradientRunEnded
    /\ ps.class = "ParameterShiftOptimizer"
    /\ ret.kind = "returned"
    /\ ret.val.success
    /\ iteration = 6

\* a gradient optimizer returned because the gradient norm was below tolerance
StoppedEarly ==
    /\ GradientOptimizerEnded
    /\ ret.kind = "returned"
    /\ ret.val.success

\* C28: when a gradient optimizer stops early because the gradient norm is below
\* tolerance, the x it returns is the point at which that gradient was computed:
\* the iteration that meets the tolerance applies no update.
C28_NoUpdateOnConvergence ==
    StoppedEarly => ret.val.x = Iterate(ret.val.nit)

\* the same for ParameterShiftOptimizer alone
NoUpdateOnConvergencePS ==
    (StoppedEarly /\ call.op = "PS.optimize") => ret.val.x = Iterate(ret.val.nit)

\* a ParameterShiftOptimizer has stopped early
StoppedEarlyPS == StoppedEarly /\ call.op = "PS.optimize"

\* C29: VQA.compute_gradient leaves energy_history, parameter_history (the list
\* and the snapshots in it) and iteration as they were, for every vector, while
\* making its 2N evaluations.
C29_GradientLeavesTraceAlone ==
    [][(\E sh \in Shifts : CallVQAComputeGradient(sh)) =>
          /\ UNCHANGED <<iteration, energy_history, parameter_history>>
          /\ \A r \in Range(parameter_history) : heap'[r] = heap[r]
          /\ Len(backend_calls') = 2 * Len(heap[params])]_vars

\* a gradient has been computed on a VQA that holds a trace
C29_Witness ==
    /\ call.op = "VQA.compute_gradient"
    /\ ret.kind = "returned"
    /\ Len(backend_calls) = 4
    /\ iteration = 1
    /\ Len(parameter_history) = 1

\* the methods that completed without raising during the call that just ended
Completed == {i \in DOMAIN attempts : attempts[i].kind = "returned"}

\* C30: when an AdaptiveOptimizer.optimize call has ended, returned or raised, the
\* results map of the object has an entry for exactly the methods that completed
\* without raising during that call, each mapped to its result of that call.
C30_ResultsOfLastCallOnly ==
    (call.op = "Adaptive.optimize" /\ Idle) =>
        /\ DOMAIN ad.results = {attempts[i].method : i \in Completed}
        /\ \A i \in Completed : ad.results[attempts[i].method] = attempts[i].val

\* the same for the first call on the object, and for the completed methods of any
ResultsOfCompleted ==
    (call.op = "Adaptive.optimize" /\ Idle) =>
        /\ \A i \in Completed :
               /\ attempts[i].method \in DOMAIN ad.results
               /\ ad.results[attempts[i].method] = attempts[i].val
        /\ calls_left = MaxCalls - 1 =>
               DOMAIN ad.results = {attempts[i].method : i \in Completed}

\* a second call in which a method raised that had completed in the first
StaleResultKept ==
    /\ call.op = "Adaptive.optimize"
    /\ Idle
    /\ \E i \in DOMAIN attempts :
           attempts[i].kind = "raised" /\ attempts[i].method \in DOMAIN ad.results

====
